---- MODULE Spec2Model ----
(***************************************************************************)
(* Adaptive knowledge graph (tristero backend): the SQLite store           *)
(* (models/database.py), the graph service (services/graph.py), the        *)
(* entity helpers (services/entities.py) and the routes that drive them.   *)
(*                                                                         *)
(* Conventions                                                             *)
(*   - weights, scores and similarities are fixed-point integers in        *)
(*     thousandths (WScale): 0.1 is 100, 10.0 is 10000; a product is       *)
(*     rounded down to the next thousandth;                                *)
(*   - a text is a sequence of one-character strings;                      *)
(*   - uuid4() is a counter that never repeats (node_seq, edge_seq);       *)
(*   - a table is the sequence of its rows in insertion (rowid) order, the *)
(*     order in which SQLite returns rows of a scan without ORDER BY;      *)
(*   - timestamps, metadata blobs and note content are left out.           *)
(***************************************************************************)
EXTENDS Integers, Sequences, FiniteSets, TLC

VARIABLES
    db,            \* GraphService.db: the tables of the SQLite store
    collection,    \* EmbeddingService.collection: ids held by the vector index
    type_counts,   \* GraphService._type_counts: in-memory per-type counter
    tasks,         \* the running query_streaming coroutines, one frame each
    result,        \* what the most recently finished call returned or raised
    started,       \* history: the service as each running coroutine found it
    manager        \* api/websocket.py: the ConnectionManager and its sockets

vars == <<db, collection, type_counts, tasks, result, started, manager>>

None == "None"             \* Python's None where a string is expected
NoRow == [none |-> TRUE]   \* Python's None where a row (Node, Edge) is expected

(***************************************************************************)
(* Bounds of the model.                                                    *)
(***************************************************************************)
MaxNodes == 3      \* uuids drawn for nodes
MaxEnts == 2       \* spans one extraction returns
MaxLog == 2        \* rows of adaptation_events between two clears
MaxQueries == 1    \* queries counted by the metrics row between two clears
MaxEdges == 4      \* uuids drawn for edges
MaxHits == 1       \* rows a vector search returns (max_results)
MaxQueryEnts == 1  \* spans extracted from a query text
MaxMergeIds == 1   \* length of merge_ids
MaxDbCalls == 3    \* calls of the Database API made directly
MaxTasks == 2      \* streaming queries the event loop serves at the same time
MaxSockets == 3    \* websockets accepted over a run
MaxLinkNotes == 2  \* notes ingested where entity pairs recur
MaxLinkEnts == 3   \* spans the model predicts for one of those notes
MaxSpans == 3      \* spans handed to merge_overlapping
MaxMatchEnts == 2   \* spans extracted from the text of a query matched twice
MaxMetricQueries == 2 \* queries the metrics row counts between two clears, one after the other
MaxLiveTasks == 2   \* streaming queries under way at once where termination is checked
MaxLiveSockets == 1 \* websockets accepted over a run where termination is checked
MaxLiveNotes == 2   \* notes ingested over a run where termination is checked
MaxTraverseHits == 2 \* rows the vector search returns where edges are counted
MaxExpandNotes == 6 \* notes in the store a query expands from
MaxBroadcasts == 2 \* calls of ConnectionManager.broadcast over a run

(***************************************************************************)
(* Program constants (thousandths where they are weights).                 *)
(***************************************************************************)
WScale == 1000
MinWeight == 100
MaxWeight == 10000
QueryBoost == 100
CoOccurBoost == 200
ConfirmBoost == 500
RejectWeight == 100
DecayFactor == 995
SIMILARITY_THRESHOLD == 700
TYPE_PROMOTION_THRESHOLD == 5
QueryAccessMin == 3
ExpandLimit == 5
SimilarNotes == 3
EntityMatchScore == 950
DiscoveryFactor == 700

Min(a, b) == IF a < b THEN a ELSE b
Max(a, b) == IF a > b THEN a ELSE b

(***************************************************************************)
(* Text: str.lower, SQL LOWER, str.split / " ".join                        *)
(***************************************************************************)
LowerChar(c) ==
    CASE c = "A" -> "a"
      [] c = "B" -> "b"
      [] c = "C" -> "c"
      [] c = "N" -> "n"
      [] OTHER -> c

\* str.lower() (and SQLite's LOWER(), which agrees with it on ASCII).
lower(text) == [i \in DOMAIN text |-> LowerChar(text[i])]

IsSpace(c) == c = " "

RECURSIVE SplitFrom(_, _, _, _)
SplitFrom(text, i, cur, words) ==
    IF i > Len(text)
    THEN IF cur = <<>> THEN words ELSE Append(words, cur)
    ELSE IF IsSpace(text[i])
         THEN SplitFrom(text, i + 1, <<>>,
                        IF cur = <<>> THEN words ELSE Append(words, cur))
         ELSE SplitFrom(text, i + 1, Append(cur, text[i]), words)

\* str.split(): the words between runs of whitespace, none of them empty.
split(text) == SplitFrom(text, 1, <<>>, <<>>)

RECURSIVE join(_, _)
join(sep, words) ==
    IF words = <<>> THEN <<>>
    ELSE IF Len(words) = 1 THEN words[1]
    ELSE words[1] \o sep \o join(sep, Tail(words))

normalize_entity_text(text) == join(<<" ">>, split(lower(text)))

(***************************************************************************)
(* Database (models/database.py). D is the store: its five tables and the  *)
(* uuid counters.                                                          *)
(***************************************************************************)
SeedTypes == {"note", "person", "place", "thing"}

SeedRow == [count |-> 0, is_seed |-> TRUE, evolved_from |-> None]

\* Database.__init__ / _init_schema on a fresh file.
init_schema ==
    [nodes |-> <<>>,
     edges |-> <<>>,
     schema_types |-> [t \in SeedTypes |-> SeedRow],
     adaptation_events |-> <<>>,
     metrics |-> [total_queries |-> 0, llm_calls |-> 0, total_latency_ms |-> 0],
     node_seq |-> 0,
     edge_seq |-> 0]

NodeIds(D) == {D.nodes[i].id : i \in DOMAIN D.nodes}
EdgeIds(D) == {D.edges[i].id : i \in DOMAIN D.edges}

\* First row of a result set (cursor.fetchone()), NoRow when it is empty.
fetchone(rows) == IF rows = <<>> THEN NoRow ELSE rows[1]

\* log_adaptation storing the newest event first: the variant LogAppendOnly
\* rules out.
log_adaptation_newest_first(D, event_type, details) ==
    [D EXCEPT !.adaptation_events =
        <<[event_type |-> event_type, details |-> details]>> \o @]

log_adaptation(D, event_type, details) ==
    [D EXCEPT !.adaptation_events =
        Append(@, [event_type |-> event_type, details |-> details])]

\* INSERT OR IGNORE in place of the upsert: the variant RegistryCountsNodes
\* rules out.
upsert_type_ignoring(st, entity_type) ==
    IF entity_type \in DOMAIN st
    THEN st
    ELSE st @@ (entity_type :> [count |-> 1, is_seed |-> FALSE, evolved_from |-> None])

\* INSERT ... ON CONFLICT(name) DO UPDATE SET count = count + 1
upsert_type(st, entity_type) ==
    IF entity_type \in DOMAIN st
    THEN [st EXCEPT ![entity_type].count = @ + 1]
    ELSE st @@ (entity_type :> [count |-> 1, is_seed |-> FALSE, evolved_from |-> None])

\* create_node drawing an id that may be in use: the variant NoteIsNew rules out.
create_node_same_id(D, name, entity_type) ==
    LET id == Max(D.node_seq, 1)
        row == [id |-> id, name |-> name, entity_type |-> entity_type,
                access_count |-> 0]
    IN [D EXCEPT !.node_seq = @ + 1,
                 !.nodes = Append(@, row),
                 !.schema_types = upsert_type(@, entity_type)]

create_node(D, name, entity_type) ==
    LET id == D.node_seq + 1
        row == [id |-> id, name |-> name, entity_type |-> entity_type,
                access_count |-> 0]
    IN [D EXCEPT !.node_seq = id,
                 !.nodes = Append(@, row),
                 !.schema_types = upsert_type(@, entity_type)]

\* The Node object create_node returns.
created_node(D) == D.nodes[Len(D.nodes)]

get_node(D, node_id) ==
    fetchone(SelectSeq(D.nodes, LAMBDA n : n.id = node_id))

get_all_nodes(D) == D.nodes

\* update_node_access that also resets the type of the node: the variant
\* NodeIdentityIsFixed rules out.
update_node_access_retyping(D, node_id) ==
    [D EXCEPT !.nodes =
        [i \in DOMAIN @ |->
            IF @[i].id = node_id
            THEN [@[i] EXCEPT !.access_count = @ + 1, !.entity_type = "thing"]
            ELSE @[i]]]

update_node_access(D, node_id) ==
    [D EXCEPT !.nodes =
        [i \in DOMAIN @ |->
            IF @[i].id = node_id
            THEN [@[i] EXCEPT !.access_count = @ + 1]
            ELSE @[i]]]

find_node_by_name(D, name, entity_type) ==
    IF entity_type # None
    THEN fetchone(SelectSeq(D.nodes,
            LAMBDA n : lower(n.name) = lower(name) /\ n.entity_type = entity_type))
    ELSE fetchone(SelectSeq(D.nodes, LAMBDA n : lower(n.name) = lower(name)))

create_edge(D, source_id, target_id, relation_type, weight) ==
    LET id == D.edge_seq + 1
        row == [id |-> id, source_id |-> source_id, target_id |-> target_id,
                relation_type |-> relation_type, weight |-> weight,
                last_traversed |-> FALSE, traversal_count |-> 0]
    IN [D EXCEPT !.edge_seq = id, !.edges = Append(@, row)]

created_edge(D) == D.edges[Len(D.edges)]

\* get_edges_for_node as the edges leaving the node followed by the edges
\* entering it: the variant TraversalCountsExpandedEndpoints rules out.
get_edges_for_node_both_ways(D, node_id) ==
    SelectSeq(D.edges, LAMBDA e : e.source_id = node_id)
        \o SelectSeq(D.edges, LAMBDA e : e.target_id = node_id)

get_edges_for_node(D, node_id) ==
    SelectSeq(D.edges, LAMBDA e : e.source_id = node_id \/ e.target_id = node_id)

get_all_edges(D) == D.edges

\* find_edge matching the edge in the asked direction only: the variant
\* OneCoOccursPerPair rules out.
find_edge_directed(D, source_id, target_id) ==
    fetchone(SelectSeq(D.edges,
        LAMBDA e : e.source_id = source_id /\ e.target_id = target_id))

find_edge(D, source_id, target_id) ==
    fetchone(SelectSeq(D.edges,
        LAMBDA e : \/ (e.source_id = source_id /\ e.target_id = target_id)
                   \/ (e.source_id = target_id /\ e.target_id = source_id)))

boost_edge(D, edge_id, boost_amount) ==
    [D EXCEPT !.edges =
        [i \in DOMAIN @ |->
            IF @[i].id = edge_id
            THEN [@[i] EXCEPT !.weight = Min(@ + boost_amount, MaxWeight),
                              !.last_traversed = TRUE,
                              !.traversal_count = @ + 1]
            ELSE @[i]]]

\* decay_edges without MAX(..., 0.1): the variant EdgeWeightsInRange rules out.
decay_edges_unclamped(D, decay_factor) ==
    [D EXCEPT !.edges =
        [i \in DOMAIN @ |->
            [@[i] EXCEPT !.weight = (@ * decay_factor) \div WScale]]]

\* decay_edges with MIN in place of MAX: the variant DecayNumerics rules out.
decay_edges_min(D, decay_factor) ==
    [D EXCEPT !.edges =
        [i \in DOMAIN @ |->
            [@[i] EXCEPT !.weight = Min((@ * decay_factor) \div WScale, MinWeight)]]]

decay_edges(D, decay_factor) ==
    [D EXCEPT !.edges =
        [i \in DOMAIN @ |->
            [@[i] EXCEPT !.weight = Max((@ * decay_factor) \div WScale, MinWeight)]]]

\* The registry, as the set of rows keyed by name.
get_schema_types(D) == D.schema_types

create_schema_type(D, name, evolved_from) ==
    LET D1 == IF name \in DOMAIN D.schema_types
              THEN D    \* INSERT OR IGNORE
              ELSE [D EXCEPT !.schema_types =
                        @ @@ (name :> [count |-> 0, is_seed |-> FALSE,
                                       evolved_from |-> evolved_from])]
    IN log_adaptation(D1, "type_created",
                      [type_name |-> name, evolved_from |-> evolved_from])

\* record_query counting every query as a generation: the variant
\* MetricsCountCompletedQueries rules out.
record_query_all_llm(D, latency_ms, used_llm) ==
    [D EXCEPT !.metrics =
        [total_queries |-> @.total_queries + 1,
         llm_calls |-> @.llm_calls + 1,
         total_latency_ms |-> @.total_latency_ms + latency_ms]]

record_query(D, latency_ms, used_llm) ==
    [D EXCEPT !.metrics =
        [total_queries |-> @.total_queries + 1,
         llm_calls |-> @.llm_calls + (IF used_llm THEN 1 ELSE 0),
         total_latency_ms |-> @.total_latency_ms + latency_ms]]

\* clear_all without the reset of metrics: the variant ClearResets rules out.
clear_all_keep_metrics(D) ==
    LET st == D.schema_types
        kept == {t \in DOMAIN st : st[t].is_seed}
    IN [D EXCEPT !.edges = <<>>,
                 !.nodes = <<>>,
                 !.adaptation_events = <<>>,
                 !.schema_types = [t \in kept |-> [st[t] EXCEPT !.count = 0]]]

\* clear_all deleting every registry row: the variant SeedTypesStay rules out.
clear_all_drop_registry(D) ==
    [D EXCEPT !.edges = <<>>,
              !.nodes = <<>>,
              !.adaptation_events = <<>>,
              !.schema_types = [t \in {} |-> SeedRow],
              !.metrics = [total_queries |-> 0, llm_calls |-> 0,
                           total_latency_ms |-> 0]]

\* clear_all without DELETE FROM edges: the variant EdgesJoinStoredNodes
\* rules out.
clear_all_keep_edges(D) ==
    LET st == D.schema_types
        kept == {t \in DOMAIN st : st[t].is_seed}
    IN [D EXCEPT !.nodes = <<>>,
                 !.adaptation_events = <<>>,
                 !.schema_types = [t \in kept |-> [st[t] EXCEPT !.count = 0]],
                 !.metrics = [total_queries |-> 0, llm_calls |-> 0,
                              total_latency_ms |-> 0]]

clear_all(D) ==
    LET st == D.schema_types
        zeroed == [t \in DOMAIN st |->
                      IF st[t].is_seed THEN [st[t] EXCEPT !.count = 0] ELSE st[t]]
        kept == {t \in DOMAIN st : zeroed[t].is_seed}
    IN [D EXCEPT !.edges = <<>>,
                 !.nodes = <<>>,
                 !.adaptation_events = <<>>,
                 !.schema_types = [t \in kept |-> zeroed[t]],
                 !.metrics = [total_queries |-> 0, llm_calls |-> 0,
                              total_latency_ms |-> 0]]

(***************************************************************************)
(* Entities (services/entities.py). A span is                               *)
(* [text, label, start, end, score].                                       *)
(***************************************************************************)
DEFAULT_LABELS ==
    <<"person", "organization", "location", "concept",
      "project", "technology", "date", "event">>

\* key=lambda e: (e.start, -e.score), compared as tuples
KeyLess(a, b) == a.start < b.start \/ (a.start = b.start /\ a.score > b.score)

\* One insertion of a stable sort: e goes after every element whose key is
\* not greater than its own.
RECURSIVE InsertByKey(_, _)
InsertByKey(e, s) ==
    IF s = <<>> THEN <<e>>
    ELSE IF KeyLess(e, Head(s)) THEN <<e>> \o s
    ELSE <<Head(s)>> \o InsertByKey(e, Tail(s))

RECURSIVE sorted(_)
sorted(entities) ==
    IF entities = <<>> THEN <<>>
    ELSE InsertByKey(entities[Len(entities)],
                     sorted(SubSeq(entities, 1, Len(entities) - 1)))

\* The loop replacing the current span also on an equal score: the variant
\* MergeOverlappingIsGreedySweep rules out.
RECURSIVE Sweep_on_tie(_, _, _)
Sweep_on_tie(rest, current, merged) ==
    IF rest = <<>> THEN Append(merged, current)
    ELSE LET ent == Head(rest)
         IN IF ent.start < current.end
            THEN Sweep_on_tie(Tail(rest),
                              IF ent.score >= current.score THEN ent ELSE current,
                              merged)
            ELSE Sweep_on_tie(Tail(rest), ent, Append(merged, current))

RECURSIVE Sweep(_, _, _)
Sweep(rest, current, merged) ==
    IF rest = <<>> THEN Append(merged, current)
    ELSE LET ent == Head(rest)
         IN IF ent.start < current.end
            THEN Sweep(Tail(rest),
                       IF ent.score > current.score THEN ent ELSE current,
                       merged)
            ELSE Sweep(Tail(rest), ent, Append(merged, current))

\* merge_overlapping without the append after the loop: the variant
\* MergeOverlappingIsIdempotent rules out.
merge_overlapping_dropping_last(entities) ==
    IF entities = <<>> THEN <<>>
    ELSE LET sorted_ents == sorted(entities)
             merged == Sweep(Tail(sorted_ents), sorted_ents[1], <<>>)
         IN SubSeq(merged, 1, Len(merged) - 1)

merge_overlapping(entities) ==
    IF entities = <<>> THEN <<>>
    ELSE LET sorted_ents == sorted(entities)
         IN Sweep(Tail(sorted_ents), sorted_ents[1], <<>>)

\* extract_clean: `predicted` is what the NER model returned for the text.
extract_clean(predicted) == merge_overlapping(predicted)

(***************************************************************************)
(* GraphService (services/graph.py). S is the service:                     *)
(* [db, collection, type_counts].                                          *)
(***************************************************************************)
TypeNames == SeedTypes \cup {"concept", "project"}

type_mapping(label) ==
    CASE label = "person" -> "person"
      [] label = "organization" -> "thing"
      [] label = "location" -> "place"
      [] label = "concept" -> "concept"
      [] label = "project" -> "project"
      [] label = "technology" -> "concept"
      [] label = "date" -> "thing"
      [] label = "event" -> "thing"
      [] OTHER -> "thing"

\* _refresh_type_counts on a Counter (a key never set reads 0).
refresh_type_counts(tc, D) ==
    [t \in TypeNames |->
        IF t \in DOMAIN get_schema_types(D) THEN get_schema_types(D)[t].count ELSE tc[t]]

EmptyCounter == [t \in TypeNames |-> 0]

\* Returns [S, node].
find_or_create_entity(S, extracted) ==
    LET normalized == normalize_entity_text(extracted.text)
        existing == find_node_by_name(S.db, normalized, None)
    IN IF existing # NoRow
       THEN [S |-> [S EXCEPT !.db = update_node_access(@, existing.id)],
             node |-> existing]
       ELSE LET entity_type == type_mapping(extracted.label)
                D1 == create_node(S.db, extracted.text, entity_type)
                node == created_node(D1)
            IN [S |-> [db |-> D1,
                       collection |-> S.collection \cup {node.id},
                       type_counts |-> [S.type_counts EXCEPT ![entity_type] = @ + 1]],
                node |-> node]

\* The loop of add_note over the extracted spans (lines 54-65).
\* acc is [S, entity_nodes, created_edges].
RECURSIVE mention_entities(_, _, _)
mention_entities(acc, note_id, extracted) ==
    IF extracted = <<>> THEN acc
    ELSE LET ent == Head(extracted)
             r == find_or_create_entity(acc.S, ent)
             D1 == create_edge(r.S.db, note_id, r.node.id, "mentions", ent.score)
         IN mention_entities(
                [S |-> [r.S EXCEPT !.db = D1],
                 entity_nodes |-> Append(acc.entity_nodes, r.node),
                 created_edges |-> Append(acc.created_edges, created_edge(D1))],
                note_id, Tail(extracted))

\* EmbeddingService.compute_similarity: a text is at cosine 1 from itself; any
\* other pair gets what the embedding model answers.
compute_similarity(text1, text2, answer) ==
    IF text1 = text2 THEN WScale ELSE answer

\* The pairs (i, j), i < j, in the order the nested loops visit them.
RECURSIVE PairsFrom(_, _, _)
PairsFrom(i, j, n) ==
    IF i >= n THEN <<>>
    ELSE IF j > n THEN PairsFrom(i + 1, i + 2, n)
    ELSE <<(<<i, j>>)>> \o PairsFrom(i, j + 1, n)

PairIndex(n) == {p \in (1..n) \X (1..n) : p[1] < p[2]}

\* acc is [D, edges]; pair_sim[<<i, j>>] is the model's answer for that pair.
RECURSIVE auto_link_pairs(_, _, _, _)
auto_link_pairs(acc, entity_nodes, pairs, pair_sim) ==
    IF pairs = <<>> THEN acc
    ELSE LET node_a == entity_nodes[Head(pairs)[1]]
             node_b == entity_nodes[Head(pairs)[2]]
             existing == find_edge(acc.D, node_a.id, node_b.id)
             similarity == compute_similarity(node_a.name, node_b.name,
                                              pair_sim[Head(pairs)])
             D1 == create_edge(acc.D, node_a.id, node_b.id, "co_occurs", similarity)
             next ==
                IF existing # NoRow
                THEN [D |-> boost_edge(acc.D, existing.id, CoOccurBoost),
                      edges |-> acc.edges]
                ELSE IF similarity > SIMILARITY_THRESHOLD
                     THEN [D |-> D1, edges |-> Append(acc.edges, created_edge(D1))]
                     ELSE acc
         IN auto_link_pairs(next, entity_nodes, Tail(pairs), pair_sim)

\* Returns [D, edges].
auto_link_similar(D, entity_nodes, pair_sim) ==
    auto_link_pairs([D |-> D, edges |-> <<>>], entity_nodes,
                    PairsFrom(1, 2, Len(entity_nodes)), pair_sim)

\* similar is get_similar_nodes(note_id, 3): [id, similarity] rows.
RECURSIVE link_to_similar_notes(_, _, _)
link_to_similar_notes(acc, note_id, similar) ==
    IF similar = <<>> THEN acc
    ELSE LET sim == Head(similar)
             similar_node == get_node(acc.D, sim.id)
             D1 == create_edge(acc.D, note_id, sim.id, "similar_to", sim.similarity)
             next ==
                IF /\ sim.similarity > SIMILARITY_THRESHOLD
                   /\ similar_node # NoRow
                   /\ similar_node.entity_type = "note"
                THEN [D |-> D1, edges |-> Append(acc.edges, created_edge(D1))]
                ELSE acc
         IN link_to_similar_notes(next, note_id, Tail(similar))

\* The entity types of a list of nodes, each once, in first-seen order
\* (the key order of Counter(n.entity_type for n in nodes)).
RECURSIVE types_in_order(_, _)
types_in_order(nodes, seen) ==
    IF nodes = <<>> THEN <<>>
    ELSE IF Head(nodes).entity_type \in seen
         THEN types_in_order(Tail(nodes), seen)
         ELSE <<Head(nodes).entity_type>>
              \o types_in_order(Tail(nodes), seen \cup {Head(nodes).entity_type})

CountOfType(nodes, t) == Len(SelectSeq(nodes, LAMBDA n : n.entity_type = t))

RECURSIVE promote_types(_, _, _, _)
promote_types(D, types, all_nodes, schema_types) ==
    IF types = <<>> THEN D
    ELSE LET entity_type == Head(types)
             count == CountOfType(all_nodes, entity_type)
             D1 == IF entity_type \notin schema_types
                      /\ count >= TYPE_PROMOTION_THRESHOLD
                   THEN log_adaptation(
                            create_schema_type(D, entity_type, None),
                            "type_promoted",
                            [type |-> entity_type, count |-> count])
                   ELSE D
         IN promote_types(D1, Tail(types), all_nodes, schema_types)

check_type_promotions(D) ==
    promote_types(D, types_in_order(get_all_nodes(D), {}), get_all_nodes(D),
                  DOMAIN get_schema_types(D))

\* _check_adaptations decaying twice: the variant AddNoteDecaysOnceThenLogs
\* rules out.
check_adaptations_twice(D) ==
    decay_edges(decay_edges(check_type_promotions(D), DecayFactor), DecayFactor)

check_adaptations(D) == decay_edges(check_type_promotions(D), DecayFactor)

\* note.title or note.content[:50] + "..."; a missing title is the empty text.
ContentPrefix == <<"x", ".", ".", ".">>
note_name(title) == IF title = <<>> THEN ContentPrefix ELSE title

\* add_note. Inputs: the title, what the NER model predicted for the content,
\* the embedding model's answers for the entity pairs, and the vector index's
\* neighbours of the new note. Returns [S, note_node, entity_nodes, created_edges].
add_note(S, title, predicted, pair_sim, similar) ==
    LET D1 == create_node(S.db, note_name(title), "note")
        note_node == created_node(D1)
        S1 == [S EXCEPT !.db = D1, !.collection = @ \cup {note_node.id}]
        extracted == extract_clean(predicted)
        m == mention_entities(
                 [S |-> S1, entity_nodes |-> <<>>, created_edges |-> <<>>],
                 note_node.id, extracted)
        a == auto_link_similar(m.S.db, m.entity_nodes, pair_sim)
        l == link_to_similar_notes([D |-> a.D, edges |-> <<>>], note_node.id, similar)
        D2 == check_adaptations(l.D)
        D3 == log_adaptation(D2, "note_added",
                             [entity_count |-> Len(m.entity_nodes)])
    IN [S |-> [m.S EXCEPT !.db = D3],
        note_node |-> note_node,
        entity_nodes |-> m.entity_nodes,
        created_edges |-> m.created_edges \o a.edges \o l.edges]

\* The loop over an absorbed node's edges with keep_id always made the source:
\* the variant MergeReattachesEachEdge rules out.
RECURSIVE reattach_edges_as_source(_, _, _, _)
reattach_edges_as_source(D, keep_id, merge_id, edges) ==
    IF edges = <<>> THEN D
    ELSE LET edge == Head(edges)
             D1 == create_edge(D, keep_id,
                               IF edge.source_id = merge_id
                               THEN edge.target_id ELSE edge.source_id,
                               edge.relation_type, edge.weight)
         IN reattach_edges_as_source(D1, keep_id, merge_id, Tail(edges))

\* The loop of merge_entities over the edges of one absorbed node (384-394).
RECURSIVE reattach_edges(_, _, _, _)
reattach_edges(D, keep_id, merge_id, edges) ==
    IF edges = <<>> THEN D
    ELSE LET edge == Head(edges)
             D1 == IF edge.source_id = merge_id
                   THEN create_edge(D, keep_id, edge.target_id,
                                    edge.relation_type, edge.weight)
                   ELSE create_edge(D, edge.source_id, keep_id,
                                    edge.relation_type, edge.weight)
         IN reattach_edges(D1, keep_id, merge_id, Tail(edges))

\* The loop over merge_ids deleting each absorbed node's row and original
\* edges after re-creating them: the variant RowsOnlyGrow rules out.
RECURSIVE absorb_nodes_deleting(_, _, _)
absorb_nodes_deleting(S, keep_id, merge_ids) ==
    IF merge_ids = <<>> THEN S
    ELSE LET merge_id == Head(merge_ids)
             merge_node == get_node(S.db, merge_id)
             KeptNode(n) == n.id # merge_id
             KeptEdge(e) == e.source_id # merge_id /\ e.target_id # merge_id
             S1 == IF merge_node = NoRow
                   THEN S
                   ELSE [S EXCEPT
                           !.db = [reattach_edges(@, keep_id, merge_id,
                                                  get_edges_for_node(S.db, merge_id))
                                     EXCEPT !.nodes = SelectSeq(@, KeptNode),
                                            !.edges = SelectSeq(@, KeptEdge)],
                           !.collection = @ \ {merge_id}]
         IN absorb_nodes_deleting(S1, keep_id, Tail(merge_ids))

\* The loop of merge_entities over merge_ids (378-396).
RECURSIVE absorb_nodes(_, _, _)
absorb_nodes(S, keep_id, merge_ids) ==
    IF merge_ids = <<>> THEN S
    ELSE LET merge_id == Head(merge_ids)
             merge_node == get_node(S.db, merge_id)
             S1 == IF merge_node = NoRow
                   THEN S
                   ELSE [S EXCEPT
                           !.db = reattach_edges(@, keep_id, merge_id,
                                                 get_edges_for_node(S.db, merge_id)),
                           !.collection = @ \ {merge_id}]
         IN absorb_nodes(S1, keep_id, Tail(merge_ids))

\* merge_entities looking keep_id up only after the loop: the variant
\* MergeNotFoundChangesNothing rules out.
merge_entities_absorb_first(S, keep_id, merge_ids) ==
    LET S1 == absorb_nodes(S, keep_id, merge_ids)
        keep_node == get_node(S1.db, keep_id)
    IN IF keep_node = NoRow
       THEN [S |-> S1, status |-> "not_found", value |-> NoRow]
       ELSE [S |-> [S1 EXCEPT !.db = log_adaptation(@, "entities_merged",
                                        [kept |-> keep_id, merged |-> merge_ids])],
             status |-> "ok",
             value |-> keep_node]

\* Returns [S, status, value]: status "not_found" is the raised ValueError.
merge_entities(S, keep_id, merge_ids) ==
    LET keep_node == get_node(S.db, keep_id)
        S1 == absorb_nodes(S, keep_id, merge_ids)
    IN IF keep_node = NoRow
       THEN [S |-> S, status |-> "not_found", value |-> NoRow]
       ELSE [S |-> [S1 EXCEPT !.db = log_adaptation(@, "entities_merged",
                                        [kept |-> keep_id, merged |-> merge_ids])],
             status |-> "ok",
             value |-> keep_node]

confirm_edge(D, edge_id) ==
    log_adaptation(boost_edge(D, edge_id, ConfirmBoost),
                   "edge_confirmed", [edge_id |-> edge_id])

\* UPDATE edges SET weight = 0.1 WHERE id = ?
set_edge_weight(D, edge_id, weight) ==
    [D EXCEPT !.edges =
        [i \in DOMAIN @ |->
            IF @[i].id = edge_id THEN [@[i] EXCEPT !.weight = weight] ELSE @[i]]]

reject_edge(D, edge_id) ==
    log_adaptation(set_edge_weight(D, edge_id, RejectWeight),
                   "edge_rejected", [edge_id |-> edge_id])

\* The loop storing the query's count in place of adding it to the counter:
\* the variant NoTypeCountLost rules out.
RECURSIVE query_adapt_types_assign(_, _, _)
query_adapt_types_assign(S, types, accessed_nodes) ==
    IF types = <<>> THEN S
    ELSE LET entity_type == Head(types)
             count == CountOfType(accessed_nodes, entity_type)
             total == count
             S1 == IF count >= QueryAccessMin
                   THEN [S EXCEPT
                           !.type_counts[entity_type] = total,
                           !.db = IF total >= TYPE_PROMOTION_THRESHOLD
                                     /\ entity_type \notin DOMAIN get_schema_types(S.db)
                                  THEN create_schema_type(S.db, entity_type, None)
                                  ELSE S.db]
                   ELSE S
         IN query_adapt_types_assign(S1, Tail(types), accessed_nodes)

\* _check_query_adaptations: the loop over the types of the accessed nodes.
RECURSIVE query_adapt_types(_, _, _)
query_adapt_types(S, types, accessed_nodes) ==
    IF types = <<>> THEN S
    ELSE LET entity_type == Head(types)
             count == CountOfType(accessed_nodes, entity_type)
             total == S.type_counts[entity_type] + count
             S1 == IF count >= QueryAccessMin
                   THEN [S EXCEPT
                           !.type_counts[entity_type] = total,
                           !.db = IF total >= TYPE_PROMOTION_THRESHOLD
                                     /\ entity_type \notin DOMAIN get_schema_types(S.db)
                                  THEN create_schema_type(S.db, entity_type, None)
                                  ELSE S.db]
                   ELSE S
         IN query_adapt_types(S1, Tail(types), accessed_nodes)

check_query_adaptations(S, accessed_nodes) ==
    query_adapt_types(S, types_in_order(accessed_nodes, {}), accessed_nodes)

(***************************************************************************)
(* GraphService.query (lines 143-209). Q holds the call's arguments and    *)
(* what the collaborators answer: [search_results, query_entities,         *)
(* use_llm, llm_available, latency_ms].                                    *)
(***************************************************************************)
Response == "response"

\* Lines 149-155. acc is [D, nodes, traversed_path].
RECURSIVE query_phase1(_, _)
query_phase1(acc, search_results) ==
    IF search_results = <<>> THEN acc
    ELSE LET node == get_node(acc.D, Head(search_results).id)
             next == IF node # NoRow
                     THEN [D |-> update_node_access(acc.D, node.id),
                           nodes |-> Append(acc.nodes, node),
                           traversed_path |-> Append(acc.traversed_path, node.id)]
                     ELSE acc
         IN query_phase1(next, Tail(search_results))

SeqIds(rows) == {rows[i].id : i \in DOMAIN rows}

other_end(edge, node_id) ==
    IF edge.source_id = node_id THEN edge.target_id ELSE edge.source_id

\* Lines 162-172. acc is [D, nodes, expanded_nodes, edges, traversed_path].
RECURSIVE query_expand_edges(_, _, _)
query_expand_edges(acc, node_id, node_edges) ==
    IF node_edges = <<>> THEN acc
    ELSE LET edge == Head(node_edges)
             D1 == boost_edge(acc.D, edge.id, QueryBoost)
             other_id == other_end(edge, node_id)
             other_node == get_node(D1, other_id)
             found == other_id \notin acc.expanded_nodes /\ other_node # NoRow
             next == [D |-> D1,
                      edges |-> Append(acc.edges, edge),
                      nodes |-> IF found THEN Append(acc.nodes, other_node)
                                ELSE acc.nodes,
                      expanded_nodes |-> IF found
                                         THEN acc.expanded_nodes \cup {other_id}
                                         ELSE acc.expanded_nodes,
                      traversed_path |-> IF found
                                         THEN Append(acc.traversed_path, other_id)
                                         ELSE acc.traversed_path]
         IN query_expand_edges(next, node_id, Tail(node_edges))

\* Lines 160-161: the loop over nodes[:5].
RECURSIVE query_phase2(_, _)
query_phase2(acc, first_nodes) ==
    IF first_nodes = <<>> THEN acc
    ELSE query_phase2(
            query_expand_edges(acc, Head(first_nodes).id,
                               get_edges_for_node(acc.D, Head(first_nodes).id)),
            Tail(first_nodes))

\* nodes[:n]
Take(s, n) == SubSeq(s, 1, Min(n, Len(s)))

\* Lines 174-179. acc is [nodes, traversed_path].
RECURSIVE query_phase3(_, _, _, _)
query_phase3(acc, D, expanded_nodes, query_entities) ==
    IF query_entities = <<>> THEN acc
    ELSE LET matching == find_node_by_name(D, Head(query_entities).text, None)
             next == IF matching # NoRow /\ matching.id \notin expanded_nodes
                     THEN [nodes |-> Append(acc.nodes, matching),
                           traversed_path |-> Append(acc.traversed_path, matching.id)]
                     ELSE acc
         IN query_phase3(next, D, expanded_nodes, Tail(query_entities))

\* Returns [S, value]: the service afterwards and the QueryResult.
query(S, Q) ==
    LET p1 == query_phase1([D |-> S.db, nodes |-> <<>>, traversed_path |-> <<>>],
                           Q.search_results)
        p2 == query_phase2([D |-> p1.D, nodes |-> p1.nodes,
                            expanded_nodes |-> SeqIds(p1.nodes), edges |-> <<>>,
                            traversed_path |-> p1.traversed_path],
                           Take(p1.nodes, ExpandLimit))
        p3 == query_phase3([nodes |-> p2.nodes, traversed_path |-> p2.traversed_path],
                           p2.D, p2.expanded_nodes, Q.query_entities)
        used_llm == Q.use_llm /\ Q.llm_available /\ p3.nodes # <<>>
        D5 == record_query(p2.D, Q.latency_ms, used_llm)
        S5 == check_query_adaptations([S EXCEPT !.db = D5], p3.nodes)
    IN [S |-> S5,
        value |-> [nodes |-> p3.nodes, edges |-> p2.edges,
                   traversed_path |-> p3.traversed_path,
                   response |-> IF used_llm THEN Response ELSE None,
                   used_llm |-> used_llm]]

(***************************************************************************)
(* GraphService.query_streaming (lines 211-343) as a coroutine. A frame f  *)
(* holds the locals; f.pc is the place the coroutine resumes at. One step  *)
(* runs the code up to the next statement that can suspend (an awaited     *)
(* broadcast, followed or not by asyncio.sleep). A is what the             *)
(* collaborators answer when the step consults them: [query_entities,      *)
(* llm_available, latency_ms]; f.Q records the answers the call has used.  *)
(***************************************************************************)
IdleFrame == [pc |-> "idle"]

new_frame(search_results, use_llm) ==
    [pc |-> "phase1",
     Q |-> [search_results |-> search_results, use_llm |-> use_llm,
            query_entities |-> <<>>, llm_available |-> FALSE, latency_ms |-> 0],
     i |-> 1,
     nodes |-> <<>>, traversed_path |-> <<>>, expanded_nodes |-> {},
     edges |-> <<>>, first_nodes |-> <<>>, k |-> 1, node_edges |-> <<>>, j |-> 1,
     m |-> 1, response |-> None, used_llm |-> FALSE, events |-> <<>>]

\* The messages handed to broadcast.
embedding_search_event(node_id, score) ==
    [type |-> "query_traversal", phase |-> "embedding_search",
     node_id |-> node_id, score |-> score, delay_ms |-> 120]
edge_event(node_id, edge_id) ==
    [type |-> "query_traversal", phase |-> "edge_expansion",
     node_id |-> node_id, edge_id |-> edge_id, delay_ms |-> 100]
discovery_event(node_id, score) ==
    [type |-> "query_traversal", phase |-> "edge_expansion",
     node_id |-> node_id, score |-> score, delay_ms |-> 120]
\* An entity match announced under phase 1's name: the variant EventsInPhaseOrder
\* rules out.
entity_match_as_search(node_id) ==
    [type |-> "query_traversal", phase |-> "embedding_search",
     node_id |-> node_id, score |-> EntityMatchScore, delay_ms |-> 120]
entity_match_event(node_id) ==
    [type |-> "query_traversal", phase |-> "entity_match",
     node_id |-> node_id, score |-> EntityMatchScore, delay_ms |-> 120]
llm_thinking_event ==
    [type |-> "query_traversal", phase |-> "llm_thinking", delay_ms |-> 250]
complete_event ==
    [type |-> "query_traversal", phase |-> "complete", delay_ms |-> 50]

broadcast(f, message) == [f EXCEPT !.events = Append(@, message)]

Go(S, f) == [S |-> S, f |-> f, yield |-> FALSE]
Suspend(S, f) == [S |-> S, f |-> f, yield |-> TRUE]

\* Lines 226-241: one turn of the loop over search_results.
stream_phase1(S, f) ==
    IF f.i > Len(f.Q.search_results)
    THEN Go(S, [f EXCEPT !.pc = "phase2"])
    ELSE LET hit == f.Q.search_results[f.i]
             node == get_node(S.db, hit.id)
         IN IF node # NoRow
            THEN Suspend([S EXCEPT !.db = update_node_access(@, node.id)],
                         broadcast([f EXCEPT !.nodes = Append(@, node),
                                             !.traversed_path = Append(@, node.id),
                                             !.i = @ + 1],
                                   embedding_search_event(node.id, hit.similarity)))
            ELSE Go(S, [f EXCEPT !.i = @ + 1])

\* Phase 2 looping over every node phase 1 found: the variant
\* ExpansionIsOneHopFromFive rules out.
stream_phase2_unsliced(S, f) ==
    Go(S, [f EXCEPT !.expanded_nodes = SeqIds(f.nodes),
                    !.edges = <<>>,
                    !.first_nodes = f.nodes,
                    !.k = 1,
                    !.pc = "expand_node"])

\* Lines 244-247: expanded_nodes, edges, and the slice nodes[:5].
stream_phase2(S, f) ==
    Go(S, [f EXCEPT !.expanded_nodes = SeqIds(f.nodes),
                    !.edges = <<>>,
                    !.first_nodes = Take(f.nodes, ExpandLimit),
                    !.k = 1,
                    !.pc = "expand_node"])

\* Lines 247-248: the next node of the slice and its edges.
stream_expand_node(S, f) ==
    IF f.k > Len(f.first_nodes)
    THEN Go(S, [f EXCEPT !.pc = "phase3"])
    ELSE Go(S, [f EXCEPT !.node_edges = get_edges_for_node(S.db, f.first_nodes[f.k].id),
                         !.j = 1,
                         !.pc = "expand_edge"])

\* Phase 2 without the edge's broadcast: the variant DiscoveryFollowsItsEdge
\* rules out.
stream_expand_edge_silent(S, f) ==
    IF f.j > Len(f.node_edges)
    THEN Go(S, [f EXCEPT !.k = @ + 1, !.pc = "expand_node"])
    ELSE LET edge == f.node_edges[f.j]
         IN Go([S EXCEPT !.db = boost_edge(@, edge.id, QueryBoost)],
               [f EXCEPT !.edges = Append(@, edge), !.pc = "discover"])

\* Phase 2 writing the edge's counter and weight from the row it fetched
\* before the loop, not from the stored row: the variant NoCounterUpdateLost
\* rules out.
stream_expand_edge_stale(S, f) ==
    IF f.j > Len(f.node_edges)
    THEN Go(S, [f EXCEPT !.k = @ + 1, !.pc = "expand_node"])
    ELSE LET edge == f.node_edges[f.j]
             written == [S.db EXCEPT !.edges =
                            [i \in DOMAIN @ |->
                                IF @[i].id = edge.id
                                THEN [@[i] EXCEPT
                                        !.weight = Min(edge.weight + QueryBoost, MaxWeight),
                                        !.traversal_count = edge.traversal_count + 1]
                                ELSE @[i]]]
         IN Suspend([S EXCEPT !.db = written],
                    broadcast([f EXCEPT !.edges = Append(@, edge),
                                        !.pc = "discover"],
                              edge_event(f.first_nodes[f.k].id, edge.id)))

\* Lines 249-261: the next edge of the node, up to the edge's broadcast.
stream_expand_edge(S, f) ==
    IF f.j > Len(f.node_edges)
    THEN Go(S, [f EXCEPT !.k = @ + 1, !.pc = "expand_node"])
    ELSE LET edge == f.node_edges[f.j]
         IN Suspend([S EXCEPT !.db = boost_edge(@, edge.id, QueryBoost)],
                    broadcast([f EXCEPT !.edges = Append(@, edge),
                                        !.pc = "discover"],
                              edge_event(f.first_nodes[f.k].id, edge.id)))

\* Phase 2 always taking the edge's target as the other endpoint: the variant
\* QueriesAgree rules out.
stream_discover_target(S, f) ==
    LET edge == f.node_edges[f.j]
        other_id == edge.target_id
        other_node == get_node(S.db, other_id)
        back == [f EXCEPT !.j = @ + 1, !.pc = "expand_edge"]
    IN IF other_id \notin f.expanded_nodes /\ other_node # NoRow
       THEN Suspend(S,
                broadcast([back EXCEPT !.nodes = Append(@, other_node),
                                       !.expanded_nodes = @ \cup {other_id},
                                       !.traversed_path = Append(@, other_id)],
                          discovery_event(other_id,
                              (edge.weight * DiscoveryFactor) \div WScale)))
       ELSE Go(S, back)

\* Phase 2 counting an access for the node it discovers: the variant
\* QueryCountsItsHitsOnly rules out.
stream_discover_counting(S, f) ==
    LET edge == f.node_edges[f.j]
        other_id == other_end(edge, f.first_nodes[f.k].id)
        other_node == get_node(S.db, other_id)
        back == [f EXCEPT !.j = @ + 1, !.pc = "expand_edge"]
    IN IF other_id \notin f.expanded_nodes /\ other_node # NoRow
       THEN Suspend([S EXCEPT !.db = update_node_access(@, other_id)],
                broadcast([back EXCEPT !.nodes = Append(@, other_node),
                                       !.expanded_nodes = @ \cup {other_id},
                                       !.traversed_path = Append(@, other_id)],
                          discovery_event(other_id,
                              (edge.weight * DiscoveryFactor) \div WScale)))
       ELSE Go(S, back)

\* Lines 263-279: the other endpoint of the edge just announced.
stream_discover(S, f) ==
    LET edge == f.node_edges[f.j]
        other_id == other_end(edge, f.first_nodes[f.k].id)
        other_node == get_node(S.db, other_id)
        back == [f EXCEPT !.j = @ + 1, !.pc = "expand_edge"]
    IN IF other_id \notin f.expanded_nodes /\ other_node # NoRow
       THEN Suspend(S,
                broadcast([back EXCEPT !.nodes = Append(@, other_node),
                                       !.expanded_nodes = @ \cup {other_id},
                                       !.traversed_path = Append(@, other_id)],
                          discovery_event(other_id,
                              (edge.weight * DiscoveryFactor) \div WScale)))
       ELSE Go(S, back)

\* Line 282: extract_with_context(query_text).
stream_phase3(S, f, A) ==
    Go(S, [f EXCEPT !.Q.query_entities = A.query_entities, !.m = 1, !.pc = "match"])

\* Lines 283-297: one turn of the loop over the query's entities.
stream_match(S, f) ==
    IF f.m > Len(f.Q.query_entities)
    THEN Go(S, [f EXCEPT !.pc = "phase4"])
    ELSE LET matching == find_node_by_name(S.db, f.Q.query_entities[f.m].text, None)
             on == [f EXCEPT !.m = @ + 1]
         IN IF matching # NoRow /\ matching.id \notin f.expanded_nodes
            THEN Suspend(S,
                     broadcast([on EXCEPT !.nodes = Append(@, matching),
                                          !.traversed_path = Append(@, matching.id)],
                               entity_match_event(matching.id)))
            ELSE Go(S, on)

\* Phase 4 never asking is_available(): the variant GenerationOnlyWhenAvailable
\* rules out.
stream_phase4_unchecked(S, f, A) ==
    LET asked == [f EXCEPT !.Q.llm_available = f.Q.use_llm /\ A.llm_available]
    IN IF f.Q.use_llm /\ f.nodes # <<>>
       THEN Suspend(S, broadcast([asked EXCEPT !.pc = "generate"], llm_thinking_event))
       ELSE Go(S, [asked EXCEPT !.pc = "phase5"])

\* Lines 300-309: the guard of the generation branch (is_available() is asked
\* only when use_llm holds) and the announcement.
stream_phase4(S, f, A) ==
    LET available == f.Q.use_llm /\ A.llm_available
        asked == [f EXCEPT !.Q.llm_available = available]
    IN IF f.Q.use_llm /\ available /\ f.nodes # <<>>
       THEN Suspend(S, broadcast([asked EXCEPT !.pc = "generate"], llm_thinking_event))
       ELSE Go(S, [asked EXCEPT !.pc = "phase5"])

\* Lines 311-326.
stream_generate(S, f) ==
    Go(S, [f EXCEPT !.response = Response, !.used_llm = TRUE, !.pc = "phase5"])

\* Lines 329-338.
\* Phase 5 asking again and again whether the LLM is available instead of
\* completing: the variant QueryStreamingTerminates rules out.
stream_phase5_polling(S, f, A) ==
    Suspend(S, [f EXCEPT !.Q.llm_available = ~@])

stream_phase5(S, f, A) ==
    LET D5 == record_query(S.db, A.latency_ms, f.used_llm)
        S5 == check_query_adaptations([S EXCEPT !.db = D5], f.nodes)
    IN Suspend(S5, broadcast([f EXCEPT !.Q.latency_ms = A.latency_ms,
                                       !.pc = "return"],
                             complete_event))

stream_step(S, f, A) ==
    CASE f.pc = "phase1" -> stream_phase1(S, f)
      [] f.pc = "phase2" -> stream_phase2(S, f)
      [] f.pc = "expand_node" -> stream_expand_node(S, f)
      [] f.pc = "expand_edge" -> stream_expand_edge(S, f)
      [] f.pc = "discover" -> stream_discover(S, f)
      [] f.pc = "phase3" -> stream_phase3(S, f, A)
      [] f.pc = "match" -> stream_match(S, f)
      [] f.pc = "phase4" -> stream_phase4(S, f, A)
      [] f.pc = "generate" -> stream_generate(S, f)
      [] f.pc = "phase5" -> stream_phase5(S, f, A)

\* Runs the coroutine from f.pc to its next suspension. Returns [S, f].
RECURSIVE run_to_suspension(_, _, _)
run_to_suspension(S, f, A) ==
    LET r == stream_step(S, f, A)
    IN IF r.yield THEN [S |-> r.S, f |-> r.f] ELSE run_to_suspension(r.S, r.f, A)

\* Lines 340-343: the QueryResult.
query_result(f) ==
    [nodes |-> f.nodes, edges |-> f.edges, traversed_path |-> f.traversed_path,
     response |-> f.response, used_llm |-> f.used_llm]

(***************************************************************************)
(* ConnectionManager (api/websocket.py). A websocket is a number that      *)
(* never repeats (ws_seq); a message is the number of its broadcast        *)
(* (sent). received lists, per websocket, the messages whose send_text     *)
(* returned; failed holds the websockets a send_text has raised on.        *)
(***************************************************************************)
EmptyManager ==
    [active_connections |-> <<>>, ws_seq |-> 0, sent |-> 0,
     received |-> <<>>, failed |-> {}]

\* accept() and active_connections.append(websocket), for a new websocket.
connect(M) ==
    [M EXCEPT !.ws_seq = @ + 1,
              !.active_connections = Append(@, M.ws_seq + 1),
              !.received = Append(@, <<>>)]

\* if websocket in active_connections: active_connections.remove(websocket)
disconnect(M, websocket) ==
    [M EXCEPT !.active_connections = SelectSeq(@, LAMBDA c : c # websocket)]

\* for conn in disconnected: self.disconnect(conn)
RECURSIVE disconnect_each(_, _)
disconnect_each(M, disconnected) ==
    IF disconnected = <<>> THEN M
    ELSE disconnect_each(disconnect(M, Head(disconnected)), Tail(disconnected))

\* The frame of a call of broadcast: `it` is the position the list iterator
\* reads next, `cur` the connection whose send_text is awaited; at_start and
\* attempted record the list as the call found it and the connections it
\* has called send_text on.
new_broadcast(M, message) ==
    [pc |-> "loop", message |-> message, it |-> 1, cur |-> 0,
     disconnected |-> <<>>, at_start |-> M.active_connections,
     attempted |-> <<>>]

\* `for connection in self.active_connections`: the iterator reads the live
\* list at its position; when the list is exhausted the connections that
\* failed are removed and the call returns.
broadcast_next(M, f) ==
    IF f.it <= Len(M.active_connections)
    THEN [M |-> M,
          f |-> [f EXCEPT !.pc = "sending",
                          !.cur = M.active_connections[f.it],
                          !.it = @ + 1,
                          !.attempted = Append(@, M.active_connections[f.it])]]
    ELSE [M |-> disconnect_each(M, f.disconnected),
          f |-> [f EXCEPT !.pc = "between", !.cur = 0]]

\* The except branch removing the failed connection inside the loop: the
\* variant BroadcastFailureIsolated rules out.
broadcast_resume_removing(M, f, delivered) ==
    IF delivered
    THEN broadcast_next([M EXCEPT !.received[f.cur] = Append(@, f.message)], f)
    ELSE broadcast_next(disconnect([M EXCEPT !.failed = @ \cup {f.cur}], f.cur),
                        [f EXCEPT !.disconnected = Append(@, f.cur)])

\* `await connection.send_text(message_json)` returns or raises, and the
\* loop goes on to its next suspension.
broadcast_resume(M, f, delivered) ==
    IF delivered
    THEN broadcast_next([M EXCEPT !.received[f.cur] = Append(@, f.message)], f)
    ELSE broadcast_next([M EXCEPT !.failed = @ \cup {f.cur}],
                        [f EXCEPT !.disconnected = Append(@, f.cur)])

(***************************************************************************)
(* The routes (api/routes.py) that drive the service, and the inputs the   *)
(* model draws for them.                                                   *)
(***************************************************************************)
Service == [db |-> db, collection |-> collection, type_counts |-> type_counts]

Titles == {<<>>, <<"c">>}
Similarities == {100, 1000}     \* what the embedding model answers for two texts
HitSimilarities == {800}        \* what a vector search reports for a hit
Latencies == {3}                \* what the clock measures for a query
MissingId == MaxNodes + MaxEdges + 1     \* an id that names no row

Span(t, l, b, c) ==
    [text |-> t, label |-> l, start |-> b, end |-> b + Len(t), score |-> c]

\* What the NER model finds in the notes of the ingestion model: "a b" and
\* "A  b" (one name up to case and spacing), and "c" (also a note title);
\* spans that overlap and spans that do not; the ends of the score range.
ModelSpans ==
    {Span(<<"a", " ", "b">>, "person", 0, 1000),
     Span(<<"A", " ", " ", "b">>, "concept", 0, 1000),
     Span(<<"A", " ", " ", "b">>, "concept", 5, 1000),
     Span(<<"c">>, "concept", 2, 100),
     Span(<<"c">>, "technology", 5, 100)}

\* What it finds in the notes ingested while queries are running: two spans
\* that do not overlap, at the two ends of the score range.
NoteSpans ==
    {Span(<<"a", " ", "b">>, "person", 0, 1000),
     Span(<<"c">>, "technology", 5, 100)}

QuerySpans ==
    {Span(<<"a", " ", "b">>, "person", 0, 1000),
     Span(<<"C">>, "concept", 2, 100)}

\* Lists, with at most n elements, of elements of X.
SeqsUpTo(X, n) == UNION {[1..len -> X] : len \in 0..n}

\* What get_similar_nodes / search may answer: n distinct ids of the index (all
\* of them when it holds fewer), most similar first.
Ranked(ids, n, sims) ==
    {r \in [1..Min(n, Cardinality(ids)) -> [id : ids, similarity : sims]] :
        /\ \A a, b \in DOMAIN r : a # b => r[a].id # r[b].id
        /\ \A a \in DOMAIN r : a > 1 => r[a - 1].similarity >= r[a].similarity}

Bounded(D, log_bound, query_bound) ==
    /\ D.node_seq <= MaxNodes
    /\ D.edge_seq <= MaxEdges
    /\ Len(D.adaptation_events) <= log_bound
    /\ D.metrics.total_queries <= query_bound

WithinBounds(D) == Bounded(D, MaxLog, MaxQueries)

SetService(S) ==
    /\ db' = S.db
    /\ collection' = S.collection
    /\ type_counts' = S.type_counts

AllIdle == \A q \in DOMAIN tasks : tasks[q].pc = "idle"

\* POST /notes (the handler is synchronous up to its return value).
AddNoteWithin(TitleSet, SpanSet, log_bound, query_bound) ==
    /\ db.node_seq < MaxNodes
    /\ Len(db.adaptation_events) < log_bound
    /\ \E title \in TitleSet, predicted \in SeqsUpTo(SpanSet, MaxEnts) :
        \E pair_sim \in [PairIndex(Len(extract_clean(predicted))) -> Similarities],
           similar \in Ranked(collection, SimilarNotes, Similarities) :
          LET r == add_note(Service, title, predicted, pair_sim, similar)
          IN /\ Bounded(r.S.db, log_bound, query_bound)
             /\ SetService(r.S)
             /\ result' = [op |-> "add_note", status |-> "ok",
                           value |-> [note_node |-> r.note_node,
                                      entity_nodes |-> r.entity_nodes,
                                      created_edges |-> r.created_edges]]
             /\ UNCHANGED <<tasks, started, manager>>

AddNoteFrom(TitleSet, SpanSet) == AddNoteWithin(TitleSet, SpanSet, MaxLog, MaxQueries)

AddNote == AddNoteFrom({<<>>}, NoteSpans)

\* EmbeddingService.search(query_text, n_results) for the query texts and
\* max_results of the model.
SearchResults == UNION {Ranked(collection, n, HitSimilarities) : n \in 0..MaxHits}

\* What the collaborators of a query answer: the NER model, Ollama, the clock.
Answers(SpanSet) ==
    [query_entities : SeqsUpTo(SpanSet, MaxQueryEnts),
     llm_available : BOOLEAN,
     latency_ms : Latencies]

\* Queries under way count against MaxQueries before they reach phase 5.
Running == Cardinality({q \in DOMAIN tasks : tasks[q].pc \notin {"idle", "return"}})

\* POST /query: the coroutine starts and runs to its first suspension.
StartQueryStreamingFrom(query_bound, UseLlm, SpanSet) ==
    /\ db.metrics.total_queries + Running < query_bound
    /\ \E q \in DOMAIN tasks, search_results \in SearchResults, use_llm \in UseLlm,
          A \in Answers(SpanSet) :
        LET r == run_to_suspension(Service, new_frame(search_results, use_llm), A)
        IN /\ tasks[q].pc = "idle"
           /\ SetService(r.S)
           /\ tasks' = [tasks EXCEPT ![q] = r.f]
           /\ started' = [started EXCEPT ![q] = Service]
           /\ UNCHANGED <<result, manager>>

StartQueryStreaming == StartQueryStreamingFrom(MaxQueries, BOOLEAN, QuerySpans)

\* The event loop resumes a suspended coroutine.
ResumeQueryStreamingFrom(SpanSet) ==
    \E q \in DOMAIN tasks, A \in Answers(SpanSet) :
        /\ tasks[q].pc \notin {"idle", "return"}
        /\ LET r == run_to_suspension(Service, tasks[q], A)
           IN /\ SetService(r.S)
              /\ tasks' = [tasks EXCEPT ![q] = r.f]
        /\ UNCHANGED <<result, started, manager>>

ResumeQueryStreaming == ResumeQueryStreamingFrom(QuerySpans)

\* The coroutine returns its QueryResult.
ReturnQueryStreaming ==
    \E q \in DOMAIN tasks :
        /\ tasks[q].pc = "return"
        /\ result' = [op |-> "query_streaming", status |-> "ok",
                      value |-> query_result(tasks[q])]
        /\ tasks' = [tasks EXCEPT ![q] = IdleFrame]
        /\ started' = [started EXCEPT ![q] = NoRow]
        /\ UNCHANGED <<db, collection, type_counts, manager>>

\* POST /merge
MergeEntitiesOf(Ids) ==
    /\ Len(db.adaptation_events) < MaxLog
    /\ \E keep_id \in Ids, merge_ids \in SeqsUpTo(Ids, MaxMergeIds) :
        LET r == merge_entities(Service, keep_id, merge_ids)
        IN /\ WithinBounds(r.S.db)
           /\ SetService(r.S)
           /\ result' = [op |-> "merge_entities", status |-> r.status,
                         value |-> r.value]
           /\ UNCHANGED <<tasks, started, manager>>

MergeEntities == MergeEntitiesOf(NodeIds(db))

\* POST /edges/confirm
ConfirmEdgeOf(Ids) ==
    \E edge_id \in Ids :
        /\ WithinBounds(confirm_edge(db, edge_id))
        /\ db' = confirm_edge(db, edge_id)
        /\ result' = [op |-> "confirm_edge", status |-> "ok", value |-> NoRow]
        /\ UNCHANGED <<collection, type_counts, tasks, started, manager>>

ConfirmEdge == ConfirmEdgeOf(EdgeIds(db))

\* POST /edges/reject
RejectEdgeOf(Ids) ==
    \E edge_id \in Ids :
        /\ WithinBounds(reject_edge(db, edge_id))
        /\ db' = reject_edge(db, edge_id)
        /\ result' = [op |-> "reject_edge", status |-> "ok", value |-> NoRow]
        /\ UNCHANGED <<collection, type_counts, tasks, started, manager>>

RejectEdge == RejectEdgeOf(EdgeIds(db))

\* POST /clear: clear_all, embeddings.clear_all, _type_counts.clear(),
\* _refresh_type_counts, with no suspension in between.
clear_graph(S) ==
    LET D1 == clear_all(S.db)
    IN [db |-> D1, collection |-> {},
        type_counts |-> refresh_type_counts(EmptyCounter, D1)]

ClearGraph ==
    /\ SetService(clear_graph(Service))
    /\ result' = [op |-> "clear_graph", status |-> "ok", value |-> NoRow]
    /\ UNCHANGED <<tasks, started, manager>>

\* GraphService.__init__ on a fresh database file and an empty index; no
\* request is being served.
Init ==
    /\ db = init_schema
    /\ collection = {}
    /\ type_counts = refresh_type_counts(EmptyCounter, init_schema)
    /\ tasks = [q \in {1} |-> IdleFrame]
    /\ started = [q \in {1} |-> NoRow]
    /\ result = [op |-> "init", status |-> "ok", value |-> NoRow]
    /\ manager = EmptyManager

(***************************************************************************)
(* The routes of the server, interleaved at the suspension points of the   *)
(* streaming query; the ids the callers pass name stored rows.             *)
(***************************************************************************)
Next ==
    \/ AddNote
    \/ StartQueryStreaming
    \/ ResumeQueryStreaming
    \/ ReturnQueryStreaming
    \/ MergeEntities
    \/ ConfirmEdge
    \/ RejectEdge
    \/ ClearGraph

Spec == Init /\ [][Next]_vars

(***************************************************************************)
(* Ingestion and curation without queries: the full set of spans and       *)
(* titles, and ids that may name no row.                                   *)
(***************************************************************************)
IngestNote == AddNoteFrom(Titles, ModelSpans)
MergeAny == MergeEntitiesOf(NodeIds(db) \cup {MissingId})
ConfirmAny == ConfirmEdgeOf(EdgeIds(db) \cup {MissingId})
RejectAny == RejectEdgeOf(EdgeIds(db) \cup {MissingId})

NextIngest ==
    \/ IngestNote
    \/ MergeAny
    \/ ConfirmAny
    \/ RejectAny
    \/ ClearGraph

SpecIngest == Init /\ [][NextIngest]_vars

(***************************************************************************)
(* Queries in isolation: nothing else runs between the start of a          *)
(* streaming query and its return; GraphService.query is one step.         *)
(***************************************************************************)
QueryInput(search_results, use_llm, A) ==
    [search_results |-> search_results, use_llm |-> use_llm,
     query_entities |-> A.query_entities,
     llm_available |-> A.llm_available,
     latency_ms |-> A.latency_ms]

\* GraphService.query
Query ==
    /\ db.metrics.total_queries < MaxQueries
    /\ \E search_results \in SearchResults, use_llm \in BOOLEAN,
          A \in Answers(QuerySpans) :
        LET r == query(Service, QueryInput(search_results, use_llm, A))
        IN /\ WithinBounds(r.S.db)
           /\ SetService(r.S)
           /\ result' = [op |-> "query", status |-> "ok", value |-> r.value]
           /\ UNCHANGED <<tasks, started, manager>>

IsoIngest == AllIdle /\ IngestNote
IsoQuery == AllIdle /\ Query
IsoConfirm == AllIdle /\ ConfirmEdge

NextIso ==
    \/ IsoIngest
    \/ IsoQuery
    \/ IsoConfirm
    \/ StartQueryStreaming
    \/ ResumeQueryStreaming
    \/ ReturnQueryStreaming

SpecIso == Init /\ [][NextIso]_vars

(***************************************************************************)
(* The Database API (models/database.py) called directly, with arguments   *)
(* the service never passes.                                               *)
(***************************************************************************)
DbNames == {<<"a">>, <<"c">>}
DbTypes == {"note", "person", "concept"}
DbWeights == {0, 100, 1000, 12000}
DbAmounts == {-500, 200, 20000}
DbFactors == {500, 995, 2000}

\* The number of calls made so far, kept in result.
DbCalls == IF result.op = "init" THEN 0 ELSE result.value

DbStep(D, op) ==
    /\ DbCalls < MaxDbCalls
    /\ WithinBounds(D)
    /\ db' = D
    /\ result' = [op |-> op, status |-> "ok", value |-> DbCalls + 1]
    /\ UNCHANGED <<collection, type_counts, tasks, started, manager>>

DbCreateNode ==
    /\ db.node_seq < MaxNodes
    /\ \E name \in DbNames, entity_type \in DbTypes :
        DbStep(create_node(db, name, entity_type), "create_node")

DbCreateEdge ==
    /\ db.edge_seq < MaxEdges
    /\ \E source_id, target_id \in NodeIds(db), weight \in DbWeights :
        DbStep(create_edge(db, source_id, target_id, "related_to", weight),
               "create_edge")

DbBoostEdge ==
    \E edge_id \in EdgeIds(db) \cup {MissingId}, boost_amount \in DbAmounts :
        DbStep(boost_edge(db, edge_id, boost_amount), "boost_edge")

DbDecayEdges ==
    \E decay_factor \in DbFactors :
        DbStep(decay_edges(db, decay_factor), "decay_edges")

DbCreateSchemaType ==
    /\ Len(db.adaptation_events) < MaxLog
    /\ \E name \in DbTypes \cup {"project"}, evolved_from \in {None, "thing"} :
        DbStep(create_schema_type(db, name, evolved_from), "create_schema_type")

DbClearAll == DbStep(clear_all(db), "clear_all")

NextDb ==
    \/ DbCreateNode
    \/ DbCreateEdge
    \/ DbBoostEdge
    \/ DbDecayEdges
    \/ DbCreateSchemaType
    \/ DbClearAll

SpecDb == Init /\ [][NextDb]_vars

(***************************************************************************)
(* Properties.                                                             *)
(***************************************************************************)
Range(seq) == {seq[i] : i \in DOMAIN seq}

InFlight == {q \in DOMAIN tasks : tasks[q].pc # "idle"}

PhaseRank(phase) ==
    CASE phase = "embedding_search" -> 1
      [] phase = "edge_expansion" -> 2
      [] phase = "entity_match" -> 3
      [] phase = "llm_thinking" -> 4
      [] phase = "complete" -> 5

CountPhase(events, phase) ==
    Cardinality({i \in DOMAIN events : events[i].phase = phase})

\* C2: the events a streaming query has passed to broadcast are ordered
\* embedding_search*, edge_expansion*, entity_match*, [llm_thinking], complete:
\* no event of an earlier phase follows one of a later phase, llm_thinking
\* occurs at most once, and complete occurs exactly once, as the last event,
\* once the query is about to return, and not before.
EventsInPhaseOrder ==
    \A q \in InFlight :
        LET ev == tasks[q].events
        IN /\ \A i, j \in DOMAIN ev :
                i < j => PhaseRank(ev[i].phase) <= PhaseRank(ev[j].phase)
           /\ CountPhase(ev, "llm_thinking") <= 1
           /\ CountPhase(ev, "complete") = (IF tasks[q].pc = "return" THEN 1 ELSE 0)
           /\ tasks[q].pc = "return" => ev[Len(ev)].phase = "complete"

\* A query about to return that emitted events of all five phases.
AllPhasesEmitted ==
    \E q \in InFlight :
        /\ tasks[q].pc = "return"
        /\ \A phase \in {"embedding_search", "edge_expansion", "entity_match",
                         "llm_thinking", "complete"} :
              CountPhase(tasks[q].events, phase) >= 1

IsEdgeEvent(e) == e.phase = "edge_expansion" /\ "edge_id" \in DOMAIN e
IsDiscoveryEvent(e) == e.phase = "edge_expansion" /\ "edge_id" \notin DOMAIN e

\* C3: in a streaming query's event sequence every discovery event comes
\* directly after the edge event of an edge whose other endpoint, seen from
\* the node the edge event names, is the discovered node.
DiscoveryFollowsItsEdge ==
    \A q \in InFlight :
        LET ev == tasks[q].events
        IN \A i \in DOMAIN ev :
              IsDiscoveryEvent(ev[i]) =>
                 /\ i > 1
                 /\ IsEdgeEvent(ev[i - 1])
                 /\ \E edge \in Range(tasks[q].edges) :
                       /\ edge.id = ev[i - 1].edge_id
                       /\ other_end(edge, ev[i - 1].node_id) = ev[i].node_id

\* A query that has emitted a discovery event.
DiscoveryEmitted ==
    \E q \in InFlight :
        \E i \in DOMAIN tasks[q].events : IsDiscoveryEvent(tasks[q].events[i])

\* C4: a streaming query run in isolation returns what query returns from the
\* store it started on with the same collaborator answers, and leaves the
\* service (store, index, per-type counters) as query leaves it.
QueriesAgree ==
    \A q \in InFlight :
        tasks[q].pc = "return" =>
            LET r == query(started[q], tasks[q].Q)
            IN /\ r.value = query_result(tasks[q])
               /\ r.S = Service

\* A query about to return that expanded an edge, found a second node and
\* used generation.
RichQueryReturns ==
    \E q \in InFlight :
        /\ tasks[q].pc = "return"
        /\ Len(tasks[q].nodes) >= 2
        /\ tasks[q].edges # <<>>
        /\ tasks[q].used_llm

Generates(f) == f.Q.use_llm /\ f.Q.llm_available /\ f.nodes # <<>>

\* C5: the step in which a query completes leaves used_llm true, a response
\* present and exactly one llm_thinking event exactly when generation was
\* requested, the collaborator reported available and the result is not
\* empty; llm_calls grows by one in that case and not at all otherwise, and
\* total_queries grows by one either way.
GenerationOnlyWhenAvailable ==
    [][\A q \in DOMAIN tasks :
          (tasks[q].pc # "return" /\ tasks'[q].pc = "return") =>
             LET f == tasks'[q]
             IN /\ f.used_llm = Generates(f)
                /\ (f.response # None) = Generates(f)
                /\ CountPhase(f.events, "llm_thinking") = (IF Generates(f) THEN 1 ELSE 0)
                /\ db'.metrics.llm_calls =
                      db.metrics.llm_calls + (IF Generates(f) THEN 1 ELSE 0)
                /\ db'.metrics.total_queries = db.metrics.total_queries + 1]_vars

\* A query that asked for generation, found nodes, was told the collaborator
\* is unavailable and completed.
CompletedWithoutGeneration ==
    \E q \in InFlight :
        /\ tasks[q].pc = "return"
        /\ tasks[q].Q.use_llm
        /\ ~tasks[q].Q.llm_available
        /\ tasks[q].nodes # <<>>
        /\ ~tasks[q].used_llm
        /\ db.metrics.total_queries = 1

Cleared(D, tc) ==
    /\ D.nodes = <<>>
    /\ D.edges = <<>>
    /\ D.adaptation_events = <<>>
    /\ D.metrics.total_queries = 0
    /\ D.metrics.llm_calls = 0
    /\ D.metrics.total_latency_ms = 0
    /\ DOMAIN D.schema_types = SeedTypes
    /\ \A t \in SeedTypes : D.schema_types[t].count = 0 /\ D.schema_types[t].is_seed
    /\ \A t \in DOMAIN tc : tc[t] = 0

\* C6: right after the clear route, whatever the state before (queries under
\* way included): no nodes, no edges, no adaptation events, zero metrics, a
\* registry of exactly the four seed types with count 0 and is_seed true, and
\* every per-type counter 0.
ClearResets == [][ClearGraph => Cleared(db', type_counts')]_vars

\* The store just cleared after it had held nodes and edges, while a query
\* is about to return.
ClearedAfterUse ==
    /\ result.op = "clear_graph"
    /\ db.node_seq > 0
    /\ db.edge_seq > 0
    /\ db.nodes = <<>>
    /\ \E q \in InFlight : tasks[q].pc = "return"

\* C7: in every reachable state the registry holds note, person, place and
\* thing, each flagged is_seed.
SeedTypesStay ==
    \A t \in SeedTypes :
        t \in DOMAIN db.schema_types /\ db.schema_types[t].is_seed

\* A store cleared and ingested into again, with a type outside the seeds
\* registered.
IngestedAfterClear ==
    /\ db.node_seq > Len(db.nodes)
    /\ db.nodes # <<>>
    /\ DOMAIN db.schema_types # SeedTypes

Notes(D) == {n \in Range(D.nodes) : n.entity_type = "note"}

\* C9: a step of add_note leaves every node that was stored in place and adds
\* exactly one node of type note, under an id no stored node had, which is
\* the note it returns.
NoteIsNew ==
    [][(result' # result /\ result'.op = "add_note") =>
          /\ NodeIds(db) \subseteq NodeIds(db')
          /\ Cardinality(NodeIds(db')) = Len(db'.nodes)
          /\ \E n \in Notes(db') :
                /\ n.id \notin NodeIds(db)
                /\ n.id = result'.value.note_node.id
                /\ {m.id : m \in Notes(db')} = {m.id : m \in Notes(db)} \cup {n.id}
                /\ Cardinality(Notes(db')) = Cardinality(Notes(db)) + 1]_vars

\* Two notes of the same name stored under different ids.
SameNoteTwice ==
    \E n1, n2 \in Notes(db) : n1.id # n2.id /\ n1.name = n2.name

\* C10: a step that is a call of create_schema_type for a name the registry
\* holds leaves the store, adaptation log included, as it was.
CreateSchemaTypeIdempotent ==
    [][\A name \in DOMAIN db.schema_types, evolved_from \in {None, "thing"} :
          db' = create_schema_type(db, name, evolved_from) => db' = db]_vars

\* C11: every registry row that is not a seed names a type that was promoted:
\* at least TYPE_PROMOTION_THRESHOLD nodes were created before it appeared, or
\* the per-type counter reached the threshold.
OnlyPromotedTypes ==
    \A t \in DOMAIN db.schema_types :
        ~db.schema_types[t].is_seed =>
            \/ db.node_seq >= TYPE_PROMOTION_THRESHOLD
            \/ type_counts[t] >= TYPE_PROMOTION_THRESHOLD

\* The step is the call merge_entities(keep_id, merge_ids) of the merge route.
MergeStep(keep_id, merge_ids) ==
    LET r == merge_entities(Service, keep_id, merge_ids)
    IN /\ db' = r.S.db
       /\ collection' = r.S.collection
       /\ type_counts' = r.S.type_counts
       /\ result' = [op |-> "merge_entities", status |-> r.status, value |-> r.value]

MergeArgs == NodeIds(db) \cup {MissingId}

Resolves(D, node_id) == get_node(D, node_id) # NoRow

\* C12: a merge whose keep_id names no stored node fails with not-found and
\* leaves the store, the index and the counters as they were (no edge, no
\* adaptation event); a merge whose keep_id resolves succeeds, and when none
\* of its merge_ids resolves it creates no edge and removes nothing from the
\* index.
MergeNotFoundChangesNothing ==
    [][\A keep_id \in MergeArgs, merge_ids \in SeqsUpTo(MergeArgs, MaxMergeIds) :
          MergeStep(keep_id, merge_ids) =>
             /\ ~Resolves(db, keep_id) =>
                   /\ result'.status = "not_found"
                   /\ db' = db
                   /\ collection' = collection
                   /\ type_counts' = type_counts
             /\ Resolves(db, keep_id) =>
                   /\ result'.status = "ok"
                   /\ (\A i \in DOMAIN merge_ids : ~Resolves(db, merge_ids[i])) =>
                         /\ db'.edges = db.edges
                         /\ db'.nodes = db.nodes
                         /\ collection' = collection]_vars

\* A merge that failed with not-found on a store that holds edges.
MergeFailedOnStoreWithEdges ==
    /\ result.op = "merge_entities"
    /\ result.status = "not_found"
    /\ db.edges # <<>>

LastEvent(D) == D.adaptation_events[Len(D.adaptation_events)]

\* What merge_entities is to create for one edge of the absorbed node.
Reattached(edge, created, keep_id, merge_id) ==
    /\ created.source_id = (IF edge.source_id = merge_id THEN keep_id ELSE edge.source_id)
    /\ created.target_id = (IF edge.source_id = merge_id THEN edge.target_id ELSE keep_id)
    /\ created.relation_type = edge.relation_type
    /\ created.weight = edge.weight

IsPrefix(s, t) == Len(s) <= Len(t) /\ SubSeq(t, 1, Len(s)) = s

\* C14: every step other than the full-graph clear keeps every node row and
\* every edge row, so the sets of node ids and of edge ids only grow; the
\* rows of a node absorbed by a merge and its original edges stay.
RowsOnlyGrow ==
    [][\/ ClearGraph
       \/ /\ NodeIds(db) \subseteq NodeIds(db')
          /\ EdgeIds(db) \subseteq EdgeIds(db')
          /\ \A n \in Range(db.nodes) : \E m \in Range(db'.nodes) :
                m.id = n.id /\ m.name = n.name /\ m.entity_type = n.entity_type
          /\ \A e \in Range(db.edges) : \E g \in Range(db'.edges) :
                /\ g.id = e.id
                /\ g.source_id = e.source_id
                /\ g.target_id = e.target_id
                /\ g.relation_type = e.relation_type]_vars

\* A merge has absorbed a node, and the node's row and an edge that leads to
\* it are still stored.
AbsorbedNodeStays ==
    /\ result.op = "merge_entities"
    /\ result.status = "ok"
    /\ LastEvent(db).event_type = "entities_merged"
    /\ Len(LastEvent(db).details.merged) = 1
    /\ LastEvent(db).details.merged[1] # LastEvent(db).details.kept
    /\ LastEvent(db).details.merged[1] \in NodeIds(db)
    /\ \E e \in Range(db.edges) : e.target_id = LastEvent(db).details.merged[1]

\* C15: every step other than the full-graph clear leaves the logged
\* adaptation events as a prefix of the log it produces (same events, same
\* fields, same order); the log gets shorter only by the clear.
LogAppendOnly ==
    [][/\ ClearGraph \/ IsPrefix(db.adaptation_events, db'.adaptation_events)
       /\ Len(db'.adaptation_events) < Len(db.adaptation_events) => ClearGraph]_vars

\* An edge was confirmed and the event stands after the note's event that was
\* logged before it.
ConfirmedOnLongLog ==
    /\ result.op = "confirm_edge"
    /\ Len(db.adaptation_events) >= 2
    /\ db.adaptation_events[1].event_type = "note_added"
    /\ LastEvent(db).event_type = "edge_confirmed"

(***************************************************************************)
(* Several streaming queries served by one event loop: notes are ingested  *)
(* first, then up to MaxTasks coroutines run, interleaved at their         *)
(* suspension points; nothing clears the graph.                            *)
(***************************************************************************)
NoQueryYet ==
    /\ AllIdle
    /\ db.metrics.total_queries = 0

ConcIngest == NoQueryYet /\ AddNoteWithin({<<>>}, {}, MaxNodes, MaxTasks)
ConcStart == StartQueryStreamingFrom(MaxTasks, {FALSE}, {})
ConcResume == ResumeQueryStreamingFrom({})

InitConc ==
    /\ db = init_schema
    /\ collection = {}
    /\ type_counts = refresh_type_counts(EmptyCounter, init_schema)
    /\ tasks = [q \in 1..MaxTasks |-> IdleFrame]
    /\ started = [q \in 1..MaxTasks |-> NoRow]
    /\ result = [op |-> "init", status |-> "ok", value |-> NoRow]
    /\ manager = EmptyManager

NextConc ==
    \/ ConcIngest
    \/ ConcStart
    \/ ConcResume
    \/ ReturnQueryStreaming

SpecConc == InitConc /\ [][NextConc]_vars

AllReturning == \A q \in DOMAIN tasks : tasks[q].pc = "return"

\* The service as the first of the running queries found it: the counters
\* only grow, so it is the least of the recorded ones.
NotAfter(S1, S2) ==
    /\ S1.db.metrics.total_queries <= S2.db.metrics.total_queries
    /\ \A i \in DOMAIN S1.db.nodes :
          S1.db.nodes[i].access_count <= S2.db.nodes[i].access_count

Baseline ==
    started[CHOOSE q \in DOMAIN tasks :
                \A q2 \in DOMAIN tasks : NotAfter(started[q], started[q2])]

RECURSIVE SumUpTo(_, _)
SumUpTo(count, n) == IF n = 0 THEN 0 ELSE count[n] + SumUpTo(count, n - 1)

\* Phase-1 hits on a node, over the running queries.
HitsOn(node_id) ==
    SumUpTo([q \in DOMAIN tasks |->
                Cardinality({i \in DOMAIN tasks[q].events :
                    /\ tasks[q].events[i].phase = "embedding_search"
                    /\ tasks[q].events[i].node_id = node_id})],
            MaxTasks)

\* Reinforcements of an edge, over the running queries: one per edge of the
\* expansion.
ReinforcementsOf(edge_id) ==
    SumUpTo([q \in DOMAIN tasks |->
                Cardinality({i \in DOMAIN tasks[q].edges :
                    tasks[q].edges[i].id = edge_id})],
            MaxTasks)

\* C16: when MaxTasks streaming queries, interleaved at their suspension
\* points, have all reached their return, total_queries has grown by
\* MaxTasks, each node's access_count by the phase-1 hits on it, and each
\* edge's traversal_count by the reinforcements issued on it.
NoCounterUpdateLost ==
    AllReturning =>
        /\ db.metrics.total_queries = Baseline.db.metrics.total_queries + MaxTasks
        /\ \A i \in DOMAIN db.nodes :
              db.nodes[i].access_count =
                  Baseline.db.nodes[i].access_count + HitsOn(db.nodes[i].id)
        /\ \A i \in DOMAIN db.edges :
              db.edges[i].traversal_count =
                  Baseline.db.edges[i].traversal_count + ReinforcementsOf(db.edges[i].id)

\* Two queries have run to their return, both through the same node and the
\* same edge, and each started before the other had recorded itself.
SharedEdgeReinforcedTwice ==
    /\ AllReturning
    /\ \E e \in Range(db.edges) : ReinforcementsOf(e.id) >= 2
    /\ \E n \in Range(db.nodes) : HitsOn(n.id) >= 2
    /\ \A q \in DOMAIN tasks : started[q].db.metrics.total_queries = 0

\* What a returning query adds to a type's counter.
Contribution(f, entity_type) ==
    IF CountOfType(f.nodes, entity_type) >= QueryAccessMin
    THEN CountOfType(f.nodes, entity_type)
    ELSE 0

\* C17: when MaxTasks streaming queries, interleaved at their suspension
\* points, have all reached their return, each type's in-memory counter is
\* its value before the queries plus the contributions of the queries.
NoTypeCountLost ==
    AllReturning =>
        \A t \in DOMAIN type_counts :
            type_counts[t] =
                Baseline.type_counts[t]
                + SumUpTo([q \in DOMAIN tasks |-> Contribution(tasks[q], t)], MaxTasks)

\* Two queries, each started before the other had recorded itself, have each
\* accessed three notes.
BothQueriesContribute ==
    /\ AllReturning
    /\ \A q \in DOMAIN tasks : Contribution(tasks[q], "note") >= QueryAccessMin
    /\ \A q \in DOMAIN tasks : started[q].db.metrics.total_queries = 0

(***************************************************************************)
(* The websocket endpoint and the callers of broadcast on one event loop:  *)
(* clients connect and disconnect while up to MaxTasks route handlers      *)
(* broadcast, each suspended at the send_text it awaits.                   *)
(***************************************************************************)
\* websocket_endpoint: manager.connect(websocket)
WsConnect ==
    /\ manager.ws_seq < MaxSockets
    /\ manager' = connect(manager)
    /\ UNCHANGED <<db, collection, type_counts, tasks, result, started>>

\* websocket_endpoint: WebSocketDisconnect, manager.disconnect(websocket)
WsDisconnect ==
    \E websocket \in Range(manager.active_connections) :
        /\ manager' = disconnect(manager, websocket)
        /\ UNCHANGED <<db, collection, type_counts, tasks, result, started>>

\* A handler calls broadcast (its first, or its next one after an await).
StartBroadcast ==
    \E q \in DOMAIN tasks :
        /\ tasks[q].pc \in {"idle", "between"}
        /\ manager.sent < MaxBroadcasts
        /\ LET M1 == [manager EXCEPT !.sent = @ + 1]
               r == broadcast_next(M1, new_broadcast(M1, M1.sent))
           IN /\ manager' = r.M
              /\ tasks' = [tasks EXCEPT ![q] = r.f]
        /\ UNCHANGED <<db, collection, type_counts, result, started>>

\* The event loop resumes a broadcast at the send_text it awaits.
ResumeBroadcast ==
    \E q \in DOMAIN tasks, delivered \in BOOLEAN :
        /\ tasks[q].pc = "sending"
        /\ LET r == broadcast_resume(manager, tasks[q], delivered)
           IN /\ manager' = r.M
              /\ tasks' = [tasks EXCEPT ![q] = r.f]
        /\ UNCHANGED <<db, collection, type_counts, result, started>>

\* The handler returns after its last broadcast.
ReturnHandler ==
    \E q \in DOMAIN tasks :
        /\ tasks[q].pc = "between"
        /\ tasks' = [tasks EXCEPT ![q] = IdleFrame]
        /\ result' = [op |-> "broadcast", status |-> "ok", value |-> NoRow]
        /\ UNCHANGED <<db, collection, type_counts, started, manager>>

NextWs ==
    \/ WsConnect
    \/ WsDisconnect
    \/ StartBroadcast
    \/ ResumeBroadcast
    \/ ReturnHandler

SpecWs == InitConc /\ [][NextWs]_vars

Occurrences(s, x) == Cardinality({i \in DOMAIN s : s[i] = x})

NoEventDropped ==
    \A q \in DOMAIN tasks :
        tasks[q].pc = "between" =>
            \A websocket \in Range(tasks[q].at_start) :
                (/\ websocket \in Range(manager.active_connections)
                 /\ websocket \notin manager.failed) =>
                    Occurrences(manager.received[websocket], tasks[q].message) = 1

(***************************************************************************)
(* Database.decay_edges applied again and again to a store that holds one  *)
(* edge of any weight in [0.1, 10.0].                                      *)
(***************************************************************************)
DecayWeights == MinWeight..MaxWeight

\* Factors in (0, 1), in thousandths; 0.995 is the one _check_adaptations
\* passes, 0.99 the default.
DecayFactors == {1, 500, 990, 995, 999}

InitDecay ==
    /\ \E weight \in DecayWeights :
          LET D1 == create_node(init_schema, <<"a">>, "concept")
              D2 == create_node(D1, <<"b">>, "concept")
          IN db = create_edge(D2, created_node(D1).id, created_node(D2).id,
                              "related_to", weight)
    /\ collection = {}
    /\ type_counts = refresh_type_counts(EmptyCounter, init_schema)
    /\ tasks = [q \in {1} |-> IdleFrame]
    /\ started = [q \in {1} |-> NoRow]
    /\ result = [op |-> "init", status |-> "ok", value |-> NoRow]
    /\ manager = EmptyManager

DecayEdges ==
    \E decay_factor \in DecayFactors :
        /\ db' = decay_edges(db, decay_factor)
        /\ result' = [op |-> "decay_edges", status |-> "ok",
                      value |-> [decay_factor |-> decay_factor,
                                 weight |-> created_edge(db).weight]]
        /\ UNCHANGED <<collection, type_counts, tasks, started, manager>>

NextDecay == DecayEdges

SpecDecay == InitDecay /\ [][NextDecay]_vars

\* C20: a decay step never raises an edge's weight, never leaves it below
\* 0.1, leaves a weight of 0.1 at 0.1, and with factor 0.995 takes 5.0 to
\* 4.975.
DecayNumerics ==
    [][result'.op = "decay_edges" =>
          \A i \in DOMAIN db.edges :
              /\ db'.edges[i].weight <= db.edges[i].weight
              /\ db'.edges[i].weight >= MinWeight
              /\ db.edges[i].weight = MinWeight => db'.edges[i].weight = MinWeight
              /\ (db.edges[i].weight = 5000 /\ result'.value.decay_factor = 995) =>
                    db'.edges[i].weight = 4975]_vars

\* decay_edges(0.995) has just taken an edge from 5.0 to 4.975.
DecayedFromFive ==
    /\ result.op = "decay_edges"
    /\ result.value = [decay_factor |-> 995, weight |-> 5000]
    /\ created_edge(db).weight = 4975

(***************************************************************************)
(* Ingestion of notes that mention the same entities again: up to          *)
(* MaxLinkNotes notes of up to MaxLinkEnts spans each, in any order of the *)
(* spans' positions, with no merge.                                        *)
(***************************************************************************)
\* "a b" at two places (once as "A  b"), and "c" at two places.
LinkSpans ==
    {Span(<<"a", " ", "b">>, "person", 0, 1000),
     Span(<<"A", " ", " ", "b">>, "person", 8, 1000),
     Span(<<"c">>, "technology", 5, 100),
     Span(<<"c">>, "technology", 14, 100)}

NoteIds(D) == {n.id : n \in {m \in Range(D.nodes) : m.entity_type = "note"}}

LinkNote ==
    /\ Cardinality(NoteIds(db)) < MaxLinkNotes
    /\ \E predicted \in SeqsUpTo(LinkSpans, MaxLinkEnts) :
        \E pair_sim \in [PairIndex(Len(extract_clean(predicted))) -> Similarities],
           similar \in Ranked(NoteIds(db), SimilarNotes, Similarities) :
          LET r == add_note(Service, <<>>, predicted, pair_sim, similar)
          IN /\ SetService(r.S)
             /\ result' = [op |-> "add_note", status |-> "ok",
                           value |-> [note_node |-> r.note_node,
                                      entity_nodes |-> r.entity_nodes,
                                      created_edges |-> r.created_edges]]
             /\ UNCHANGED <<tasks, started, manager>>

NextLink == LinkNote

SpecLink == Init /\ [][NextLink]_vars

EdgesBetween(D, a, b) ==
    {e \in Range(D.edges) : {e.source_id, e.target_id} = {a, b}}

\* C21: after any sequence of add_note calls, no two co_occurs edges join the
\* same pair of nodes, in either direction; and an add_note adds no edge
\* between two nodes that an edge already joined.
OneCoOccursPerPair ==
    [][/\ \A e1, e2 \in Range(db'.edges) :
             (/\ e1.relation_type = "co_occurs"
              /\ e2.relation_type = "co_occurs"
              /\ {e1.source_id, e1.target_id} = {e2.source_id, e2.target_id}) =>
                 e1.id = e2.id
       /\ \A a, b \in NodeIds(db) :
             find_edge(db, a, b) # NoRow =>
                 \A e \in EdgesBetween(db', a, b) : e.id \in EdgeIds(db)]_vars

\* A pair of distinct entities co-occurred again, in the other order, and the
\* co_occurs edge it has was boosted.
CoOccurredAgain ==
    \E e \in Range(db.edges) :
        /\ e.relation_type = "co_occurs"
        /\ e.source_id # e.target_id
        /\ e.traversal_count >= 1
        /\ result.op = "add_note"
        /\ Len(result.value.entity_nodes) >= 2
        /\ result.value.entity_nodes[1].id = e.target_id
        /\ result.value.entity_nodes[2].id = e.source_id

(***************************************************************************)
(* EntityExtractor.merge_overlapping applied to lists of up to MaxSpans    *)
(* spans: spans of five characters and of one character, at positions      *)
(* where they overlap, touch, or lie apart, with equal and unequal scores. *)
(***************************************************************************)
FiveChars == <<"a", "b", "c", "d", "e">>

MergeSpans ==
    {Span(FiveChars, "person", b, c) : b \in {0, 3, 10}, c \in {600, 800, 900}}
        \cup {Span(<<"c">>, "concept", b, 800) : b \in {0, 5, 8}}

\* The call is about to be made with a list the NER model returned.
InitMerge ==
    /\ db = init_schema
    /\ collection = {}
    /\ type_counts = refresh_type_counts(EmptyCounter, init_schema)
    /\ tasks = [q \in {1} |-> IdleFrame]
    /\ started = [q \in {1} |-> NoRow]
    /\ manager = EmptyManager
    /\ \E entities \in SeqsUpTo(MergeSpans, MaxSpans) :
          result = [op |-> "extract", status |-> "ok",
                    value |-> [entities |-> entities]]

MergeOverlapping ==
    /\ result.op = "extract"
    /\ result' = [op |-> "merge_overlapping", status |-> "ok",
                  value |-> [entities |-> result.value.entities,
                             merged |-> merge_overlapping(result.value.entities)]]
    /\ UNCHANGED <<db, collection, type_counts, tasks, started, manager>>

NextMerge == MergeOverlapping

SpecMerge == InitMerge /\ [][NextMerge]_vars

\* The reference: the stable sort by (start ascending, score descending) as
\* the one ordering of the positions that has the keys in order and leaves
\* equal keys in input order.
RefSort(entities) ==
    LET n == Len(entities)
        before(a, b) == a.start < b.start \/ (a.start = b.start /\ a.score > b.score)
        p == CHOOSE f \in [1..n -> 1..n] :
                /\ \A i, j \in 1..n : i # j => f[i] # f[j]
                /\ \A i, j \in 1..n :
                      i < j => /\ ~before(entities[f[j]], entities[f[i]])
                               /\ before(entities[f[i]], entities[f[j]]) \/ f[i] < f[j]
    IN [i \in 1..n |-> entities[p[i]]]

\* The reference sweep over the sorted list: the current span and the spans
\* emitted, after each position.
RefSweep(entities) ==
    LET t == RefSort(entities)
        at[k \in 1..Len(t)] ==
            IF k = 1 THEN [current |-> t[1], emitted |-> <<>>]
            ELSE LET was == at[k - 1]
                 IN IF t[k].start < was.current.end
                    THEN IF t[k].score > was.current.score
                         THEN [current |-> t[k], emitted |-> was.emitted]
                         ELSE was
                    ELSE [current |-> t[k],
                          emitted |-> Append(was.emitted, was.current)]
    IN IF entities = <<>> THEN <<>>
       ELSE Append(at[Len(t)].emitted, at[Len(t)].current)

ExampleSpans ==
    <<Span(FiveChars, "person", 0, 900), Span(FiveChars, "person", 3, 600),
      Span(FiveChars, "person", 10, 800)>>

\* C22: merge_overlapping returns what the reference greedy sweep returns; the
\* spans it returns are spans of its input, in order of start, and none
\* starts before the one before it ends; of the spans (0,5,0.9), (3,8,0.6),
\* (10,15,0.8) it returns the first and the third.
MergeOverlappingIsGreedySweep ==
    result.op = "merge_overlapping" =>
        LET entities == result.value.entities
            merged == result.value.merged
        IN /\ merged = RefSweep(entities)
           /\ Range(merged) \subseteq Range(entities)
           /\ \A i \in DOMAIN merged : \A j \in DOMAIN merged :
                 i < j => /\ merged[i].start <= merged[j].start
                          /\ merged[i].end <= merged[j].start
           /\ entities = ExampleSpans => merged = <<ExampleSpans[1], ExampleSpans[3]>>

\* The example's spans, handed over last first, gave the first and the third.
MergedTheExample ==
    /\ result.op = "merge_overlapping"
    /\ result.value.entities = <<ExampleSpans[3], ExampleSpans[2], ExampleSpans[1]>>
    /\ result.value.merged = <<ExampleSpans[1], ExampleSpans[3]>>

\* C23: a confirm_edge or reject_edge step whose edge id names no stored edge
\* reports not-found and leaves the store as it was: no edge modified, no
\* edge_confirmed or edge_rejected event appended.
EdgeActionOnMissingEdgeFails ==
    [][\A edge_id \in {MissingId} \ EdgeIds(db) :
          (\/ result'.op = "confirm_edge" /\ db' = confirm_edge(db, edge_id)
           \/ result'.op = "reject_edge" /\ db' = reject_edge(db, edge_id)) =>
             /\ result'.status = "not_found"
             /\ db' = db]_vars

\* C24: the count of every registry row is the number of stored nodes whose
\* entity_type is the row's name.
RegistryCountsNodes ==
    \A t \in DOMAIN db.schema_types :
        db.schema_types[t].count = CountOfType(db.nodes, t)

\* After a clear two notes were ingested, and the store has been through a
\* merge or an edge action or a query since.
TwoNotesAfterClear ==
    /\ db.node_seq > Len(db.nodes)
    /\ db.schema_types["note"].count = 2
    /\ result.op \in {"merge_entities", "confirm_edge", "reject_edge", "query_streaming"}

\* C25: after every step, a clear in the middle of a streaming query
\* included, both ends of every stored edge are ids of stored nodes; and a
\* step that removes a node leaves no node and no edge.
EdgesJoinStoredNodes ==
    [][/\ \A e \in Range(db'.edges) :
             e.source_id \in NodeIds(db') /\ e.target_id \in NodeIds(db')
       /\ ~(NodeIds(db) \subseteq NodeIds(db')) =>
             db'.nodes = <<>> /\ db'.edges = <<>>]_vars

\* The graph was cleared while a streaming query held an edge it had
\* expanded.
ClearedUnderAQuery ==
    /\ result.op = "clear_graph"
    /\ db.edges = <<>>
    /\ \E q \in InFlight :
          /\ tasks[q].pc \notin {"return"}
          /\ tasks[q].edges # <<>>

\* C26: every edge that a call of create_edge, boost_edge or decay_edges
\* creates or changes has a weight in [0.1, 10.0] afterwards, whatever
\* initial weight, amount or factor the call was given.
StoreOperationsClamp ==
    [][result'.op \in {"create_edge", "boost_edge", "decay_edges"} =>
          \A i \in DOMAIN db'.edges :
              (i \notin DOMAIN db.edges \/ db'.edges[i] # db.edges[i]) =>
                  /\ MinWeight <= db'.edges[i].weight
                  /\ db'.edges[i].weight <= MaxWeight]_vars

\* The vector-search hits a step of a coroutine has gone through, given its
\* frame before and after: positions of search_results.
HitsPassed(before, after) ==
    IF after.pc = "idle" THEN {}
    ELSE (IF before.pc = "idle" THEN 1 ELSE before.i) .. (after.i - 1)

\* C27: no step other than the clear lowers a node's access_count; and a step
\* of a streaming query raises by exactly 1 the access_count of each node
\* that a vector-search hit it went through resolves to, and leaves every
\* other node's access_count as it was, the nodes it adds in phase 2 or
\* phase 3 included.
QueryCountsItsHitsOnly ==
    [][/\ ClearGraph \/ \A i \in DOMAIN db.nodes :
             /\ i \in DOMAIN db'.nodes
             /\ db'.nodes[i].access_count >= db.nodes[i].access_count
       /\ \A q \in DOMAIN tasks :
             (tasks'[q] # tasks[q] /\ tasks'[q].pc # "idle") =>
                 \A i \in DOMAIN db.nodes :
                     db'.nodes[i].access_count =
                         db.nodes[i].access_count
                         + Cardinality({k \in HitsPassed(tasks[q], tasks'[q]) :
                               tasks'[q].Q.search_results[k].id = db.nodes[i].id})]_vars

\* A query about to return found one node by vector search and another by
\* edge expansion; the first has been accessed, the second never.
DiscoveredNodeNotCounted ==
    \E q \in DOMAIN tasks :
        /\ tasks[q].pc = "return"
        /\ \E a, b \in DOMAIN tasks[q].events :
              /\ tasks[q].events[a].phase = "embedding_search"
              /\ IsDiscoveryEvent(tasks[q].events[b])
              /\ \E n, m \in Range(db.nodes) :
                    /\ n.id = tasks[q].events[a].node_id
                    /\ m.id = tasks[q].events[b].node_id
                    /\ n.access_count >= 1
                    /\ m.access_count = 0

(***************************************************************************)
(* One streaming query over a store of up to MaxExpandNotes notes, each    *)
(* linked or not to the note ingested before it; the vector search returns *)
(* one hit or every note, oldest first or newest first.                    *)
(***************************************************************************)
NewestNote(D) == Len(D.nodes)

\* get_similar_nodes answers with at most the newest note above the
\* threshold.
ChainSimilar(D) ==
    {similar \in Ranked(NoteIds(D), SimilarNotes, Similarities) :
        \A k \in DOMAIN similar :
            similar[k].similarity > SIMILARITY_THRESHOLD =>
                similar[k].id = D.nodes[NewestNote(D)].id}

ExpandIngest ==
    /\ NoQueryYet
    /\ Len(db.nodes) < MaxExpandNotes
    /\ \E similar \in ChainSimilar(db) :
          LET r == add_note(Service, <<>>, <<>>, <<>>, similar)
          IN /\ SetService(r.S)
             /\ result' = [op |-> "add_note", status |-> "ok",
                           value |-> [note_node |-> r.note_node,
                                      entity_nodes |-> r.entity_nodes,
                                      created_edges |-> r.created_edges]]
             /\ UNCHANGED <<tasks, started, manager>>

\* search(query_text, n_results) with max_results 1 or at least the size of
\* the index, ranked by id upwards or downwards.
ExpandSearch ==
    {r \in UNION {Ranked(collection, n, HitSimilarities) :
                      n \in {1, Cardinality(collection)}} :
        \/ \A a \in DOMAIN r : a > 1 => r[a - 1].id < r[a].id
        \/ \A a \in DOMAIN r : a > 1 => r[a - 1].id > r[a].id}

ExpandStart ==
    /\ db.metrics.total_queries + Running < MaxQueries
    /\ \E q \in DOMAIN tasks, search_results \in ExpandSearch, A \in Answers({}) :
        LET r == run_to_suspension(Service, new_frame(search_results, FALSE), A)
        IN /\ tasks[q].pc = "idle"
           /\ SetService(r.S)
           /\ tasks' = [tasks EXCEPT ![q] = r.f]
           /\ started' = [started EXCEPT ![q] = Service]
           /\ UNCHANGED <<result, manager>>

NextExpand ==
    \/ ExpandIngest
    \/ ExpandStart
    \/ ConcResume
    \/ ReturnQueryStreaming

SpecExpand == Init /\ [][NextExpand]_vars

\* The ids of the rows of the edge lists of the given nodes, one list after
\* the other.
RECURSIVE EdgeIdsAround(_, _)
EdgeIdsAround(D, node_ids) ==
    IF node_ids = <<>> THEN <<>>
    ELSE LET rows == get_edges_for_node(D, Head(node_ids))
         IN [i \in DOMAIN rows |-> rows[i].id] \o EdgeIdsAround(D, Tail(node_ids))

\* The first five of the hits, in ranked order (every hit of the model
\* resolves: the index holds ids of stored nodes).
FirstFiveHits(f) ==
    [k \in 1..Min(5, Len(f.Q.search_results)) |-> f.Q.search_results[k].id]

\* C28: a query that ran alone has fetched and reinforced exactly the edges
\* of the first five nodes phase 1 found, node by node in ranked order: the
\* edges of a sixth hit, and of a node first found by expansion, only where
\* one of those five is at their other end.
ExpansionIsOneHopFromFive ==
    \A q \in DOMAIN tasks :
        tasks[q].pc = "return" =>
            LET f == tasks[q]
                D == started[q].db
                around == EdgeIdsAround(D, FirstFiveHits(f))
            IN /\ [i \in DOMAIN f.edges |-> f.edges[i].id] = around
               /\ \A i \in DOMAIN db.edges :
                     db.edges[i].traversal_count =
                         D.edges[i].traversal_count
                         + Occurrences(around, db.edges[i].id)

\* A query about to return had six hits; an edge of the sixth was reinforced
\* once only, from its other end, while an edge between two of the first five
\* was reinforced twice.
SixthHitNotExpanded ==
    \E q \in DOMAIN tasks :
        /\ tasks[q].pc = "return"
        /\ Len(tasks[q].Q.search_results) = 6
        /\ \E e \in Range(db.edges) :
              /\ tasks[q].Q.search_results[6].id \in {e.source_id, e.target_id}
              /\ e.traversal_count = 1
        /\ \E e \in Range(db.edges) : e.traversal_count = 2

(***************************************************************************)
(* Queries whose text mentions an entity twice: the NER model reports both *)
(* mentions, and extract_with_context passes them on as they come.         *)
(***************************************************************************)
MatchSpans ==
    {Span(<<"a", " ", "b">>, "person", 0, 1000),
     Span(<<"A", " ", "b">>, "person", 8, 1000)}

MatchAnswers ==
    [query_entities : SeqsUpTo(MatchSpans, MaxMatchEnts),
     llm_available : {FALSE},
     latency_ms : Latencies]

MatchIngest == NoQueryYet /\ AllIdle /\ AddNote

MatchQuery ==
    /\ AllIdle
    /\ db.metrics.total_queries < MaxQueries
    /\ \E search_results \in SearchResults, A \in MatchAnswers :
        LET r == query(Service, QueryInput(search_results, FALSE, A))
        IN /\ SetService(r.S)
           /\ result' = [op |-> "query", status |-> "ok", value |-> r.value]
           /\ UNCHANGED <<tasks, started, manager>>

MatchStart ==
    /\ db.metrics.total_queries + Running < MaxQueries
    /\ \E q \in DOMAIN tasks, search_results \in SearchResults, A \in MatchAnswers :
        LET r == run_to_suspension(Service, new_frame(search_results, FALSE), A)
        IN /\ tasks[q].pc = "idle"
           /\ SetService(r.S)
           /\ tasks' = [tasks EXCEPT ![q] = r.f]
           /\ started' = [started EXCEPT ![q] = Service]
           /\ UNCHANGED <<result, manager>>

MatchResume ==
    \E q \in DOMAIN tasks, A \in MatchAnswers :
        /\ tasks[q].pc \notin {"idle", "return"}
        /\ LET r == run_to_suspension(Service, tasks[q], A)
           IN /\ SetService(r.S)
              /\ tasks' = [tasks EXCEPT ![q] = r.f]
        /\ UNCHANGED <<result, started, manager>>

NextMatch ==
    \/ MatchIngest
    \/ MatchQuery
    \/ MatchStart
    \/ MatchResume
    \/ ReturnQueryStreaming

SpecMatch == Init /\ [][NextMatch]_vars

NoRepeat(s) == \A i, j \in DOMAIN s : s[i] = s[j] => i = j

IdsOf(rows) == [i \in DOMAIN rows |-> rows[i].id]

\* C29: the traversed_path and the node list a query returns, streaming or
\* not, hold each node id at most once, also when several entities of the
\* query text match the same node.
NoNodeTwiceInResult ==
    /\ \A q \in DOMAIN tasks :
          tasks[q].pc # "idle" =>
              /\ NoRepeat(tasks[q].traversed_path)
              /\ NoRepeat(IdsOf(tasks[q].nodes))
    /\ result.op \in {"query", "query_streaming"} =>
          /\ NoRepeat(result.value.traversed_path)
          /\ NoRepeat(IdsOf(result.value.nodes))

(***************************************************************************)
(* Requests served one after the other: notes without entities, queries of *)
(* both kinds with and without use_llm, and clears.                        *)
(***************************************************************************)
MetricsIngest == AllIdle /\ AddNoteWithin({<<>>}, {}, MaxLog, MaxMetricQueries)

MetricsQuery ==
    /\ AllIdle
    /\ db.metrics.total_queries < MaxMetricQueries
    /\ \E search_results \in SearchResults, use_llm \in BOOLEAN, A \in Answers({}) :
        LET r == query(Service, QueryInput(search_results, use_llm, A))
        IN /\ SetService(r.S)
           /\ result' = [op |-> "query", status |-> "ok", value |-> r.value]
           /\ UNCHANGED <<tasks, started, manager>>

MetricsStart == AllIdle /\ StartQueryStreamingFrom(MaxMetricQueries, BOOLEAN, {})

MetricsClear == AllIdle /\ ClearGraph

NextMetrics ==
    \/ MetricsIngest
    \/ MetricsQuery
    \/ MetricsStart
    \/ ConcResume
    \/ ReturnQueryStreaming
    \/ MetricsClear

SpecMetrics == Init /\ [][NextMetrics]_vars

\* C30: with requests served one after the other, the metrics row changes
\* only in the step in which a query reaches phase 5 and in a clear: the first
\* adds one to total_queries, and one to llm_calls exactly when the query
\* used generation, the second resets both to 0; llm_calls never exceeds
\* total_queries.  So total_queries counts the queries that reached phase 5
\* since the last clear, and llm_calls those of them that generated.
MetricsCountCompletedQueries ==
    [][LET reaching == {q \in DOMAIN tasks :
                           tasks[q].pc # "return" /\ tasks'[q].pc = "return"}
       IN /\ db.metrics.llm_calls <= db.metrics.total_queries
          /\ db'.metrics.llm_calls <= db'.metrics.total_queries
          /\ MetricsQuery =>
                /\ db'.metrics.total_queries = db.metrics.total_queries + 1
                /\ db'.metrics.llm_calls = db.metrics.llm_calls
                       + (IF result'.value.used_llm THEN 1 ELSE 0)
          /\ \A q \in reaching :
                /\ db'.metrics.total_queries = db.metrics.total_queries + 1
                /\ db'.metrics.llm_calls = db.metrics.llm_calls
                       + (IF tasks'[q].used_llm THEN 1 ELSE 0)
          /\ MetricsClear =>
                db'.metrics.total_queries = 0 /\ db'.metrics.llm_calls = 0
          /\ (~MetricsQuery /\ reaching = {} /\ ~MetricsClear) =>
                db'.metrics = db.metrics]_vars

\* Two queries were counted since the last clear, one of which generated, and
\* the second has just returned from the streaming path.
CountedTwoQueriesOneLlm ==
    /\ db.metrics.total_queries = 2
    /\ db.metrics.llm_calls = 1
    /\ \E q \in DOMAIN tasks : tasks[q].pc = "return"
    /\ result.op = "query"

(***************************************************************************)
(* merge_overlapping applied to its own result, on lists where a span is   *)
(* overtaken by a second that a third overtakes in turn.                   *)
(***************************************************************************)
ChainSpans ==
    {Span(FiveChars, "person", b, c) : b \in {0, 3}, c \in {600, 800}}
        \cup {Span(<<"c">>, "concept", b, c) : b \in {5, 8}, c \in {800, 900}}

InitRemerge ==
    /\ db = init_schema
    /\ collection = {}
    /\ type_counts = refresh_type_counts(EmptyCounter, init_schema)
    /\ tasks = [q \in {1} |-> IdleFrame]
    /\ started = [q \in {1} |-> NoRow]
    /\ manager = EmptyManager
    /\ \E entities \in SeqsUpTo(ChainSpans, MaxSpans) :
          result = [op |-> "extract", status |-> "ok",
                    value |-> [entities |-> entities]]

\* merge_overlapping called on the list a call of it returned.
MergeAgain ==
    /\ result.op = "merge_overlapping"
    /\ result' = [op |-> "merge_again", status |-> "ok",
                  value |-> [entities |-> result.value.entities,
                             merged |-> result.value.merged,
                             again |-> merge_overlapping(result.value.merged)]]
    /\ UNCHANGED <<db, collection, type_counts, tasks, started, manager>>

NextRemerge ==
    \/ MergeOverlapping
    \/ MergeAgain

SpecRemerge == InitRemerge /\ [][NextRemerge]_vars

\* C39: merge_overlapping applied to a list it returned returns that list.
MergeOverlappingIsIdempotent ==
    result.op = "merge_again" => result.value.again = result.value.merged

\* A list of three spans lost one of them in the first call, and the second
\* call was made on the two that were left.
RemergedTwoOfThree ==
    /\ result.op = "merge_again"
    /\ Len(result.value.entities) = 3
    /\ Len(result.value.merged) = 2
    /\ Len(result.value.again) = 2

Overlap(a, b) == a.start < b.end /\ b.start < a.end

\* C40: every span of the input that merge_overlapping did not return
\* overlaps a span it returned whose score is at least as high.
DiscardedSpanIsCovered ==
    result.op = "merge_overlapping" =>
        \A i \in DOMAIN result.value.entities :
            LET ent == result.value.entities[i]
            IN ent \notin Range(result.value.merged) =>
                  \E kept \in Range(result.value.merged) :
                      Overlap(kept, ent) /\ kept.score >= ent.score

(***************************************************************************)
(* Streaming queries whose every event goes through                        *)
(* ConnectionManager.broadcast: the coroutine is suspended at a send_text  *)
(* of the broadcast it awaits (bc.pc = "sending") or at the sleep after it *)
(* (bc.pc = "between"), while clients connect, disconnect and fail, notes  *)
(* are ingested, the graph is cleared and other queries run.               *)
(***************************************************************************)
InitLive ==
    /\ db = init_schema
    /\ collection = {}
    /\ type_counts = refresh_type_counts(EmptyCounter, init_schema)
    /\ tasks = [q \in 1..MaxLiveTasks |-> IdleFrame]
    /\ started = [q \in 1..MaxLiveTasks |-> NoRow]
    /\ result = [op |-> "init", status |-> "ok", value |-> NoRow]
    /\ manager = EmptyManager

\* The manager without the record of what each client received and of the
\* clients whose send_text raised, which the ConnectionManager does not keep.
Unobserved(M) ==
    [M EXCEPT !.received = [i \in DOMAIN @ |-> <<>>], !.failed = {}]

\* The coroutine runs on to its next `await broadcast(...)`, and the
\* broadcast runs on to its first send_text, or returns when nobody is
\* connected.
Awaiting(q, r) ==
    LET b == broadcast_next(manager, new_broadcast(manager, 0))
    IN /\ SetService(r.S)
       /\ manager' = Unobserved(b.M)
       /\ tasks' = [tasks EXCEPT ![q] =
                       [x \in DOMAIN r.f \cup {"bc"} |->
                           IF x = "bc" THEN b.f ELSE r.f[x]]]

LiveStart(q) ==
    /\ tasks[q].pc = "idle"
    /\ db.metrics.total_queries + Running < MaxLiveTasks
    /\ \E search_results \in SearchResults, A \in Answers({}) :
          /\ Awaiting(q, run_to_suspension(Service,
                             new_frame(search_results, FALSE), A))
          /\ UNCHANGED <<result, started>>

\* send_text returns or raises, and the broadcast goes on.
LiveSent(q) ==
    /\ tasks[q].pc # "idle"
    /\ tasks[q].bc.pc = "sending"
    /\ \E delivered \in BOOLEAN :
          LET r == broadcast_resume(manager, tasks[q].bc, delivered)
          IN /\ manager' = Unobserved(r.M)
             /\ tasks' = [tasks EXCEPT ![q].bc = r.f]
    /\ UNCHANGED <<db, collection, type_counts, result, started>>

\* The broadcast has returned and the sleep is over.
LiveResume(q) ==
    /\ tasks[q].pc \notin {"idle", "return"}
    /\ tasks[q].bc.pc = "between"
    /\ \E A \in Answers({}) : Awaiting(q, run_to_suspension(Service, tasks[q], A))
    /\ UNCHANGED <<result, started>>

\* The broadcast of the complete event has returned.
LiveReturn(q) ==
    /\ tasks[q].pc = "return"
    /\ tasks[q].bc.pc = "between"
    /\ result' = [op |-> "query_streaming", status |-> "ok",
                  value |-> query_result(tasks[q])]
    /\ tasks' = [tasks EXCEPT ![q] = IdleFrame]
    /\ UNCHANGED <<db, collection, type_counts, started, manager>>

\* The states in which LiveResume(q) is enabled.
Resumable(q) ==
    /\ tasks[q].pc \notin {"idle", "return"}
    /\ tasks[q].bc.pc = "between"

LiveIngest ==
    /\ db.node_seq < MaxLiveNotes
    /\ AddNoteWithin({<<>>}, {}, MaxLiveNotes, MaxLiveTasks)

\* POST /clear while a query is under way.
LiveClear == ~AllIdle /\ ClearGraph

LiveConnect ==
    /\ manager.ws_seq < MaxLiveSockets
    /\ manager' = connect(manager)
    /\ UNCHANGED <<db, collection, type_counts, tasks, result, started>>

NextLive ==
    \/ \E q \in DOMAIN tasks : LiveStart(q)
    \/ \E q \in DOMAIN tasks : LiveSent(q)
    \/ \E q \in DOMAIN tasks : LiveResume(q)
    \/ \E q \in DOMAIN tasks : LiveReturn(q)
    \/ LiveIngest
    \/ LiveConnect
    \/ WsDisconnect
    \/ LiveClear

\* The event loop runs every coroutine that can run, and every send_text
\* returns or raises: weak fairness of each step of each query (for
\* LiveResume(q) written out, with Resumable(q) for ENABLED).
SpecLive ==
    /\ InitLive
    /\ [][NextLive]_vars
    /\ \A q \in 1..MaxLiveTasks :
          /\ WF_vars(LiveSent(q))
          /\ WF_vars(LiveReturn(q))
          /\ []<>(~Resumable(q)) \/ []<><<LiveResume(q)>>_vars

\* C31: every streaming query under way returns, and none returns before it
\* has emitted its complete event as its last event.
QueryStreamingTerminates ==
    /\ \A q \in 1..MaxLiveTasks : (tasks[q].pc # "idle") ~> (tasks[q].pc = "idle")
    /\ [][\A q \in 1..MaxLiveTasks :
             (tasks[q].pc # "idle" /\ tasks'[q].pc = "idle") =>
                 /\ tasks[q].pc = "return"
                 /\ tasks[q].events[Len(tasks[q].events)] = complete_event]_vars

\* A query is about to return three or more events after its start, its
\* broadcast of the complete event done: the graph was cleared under it, the
\* one client is gone, and the other query is still under way.
ReturningAfterClearAndDisconnect ==
    \E q \in DOMAIN tasks :
        /\ tasks[q].pc = "return"
        /\ tasks[q].bc.pc = "between"
        /\ Len(tasks[q].events) >= 3
        /\ db.nodes = <<>>
        /\ manager.ws_seq = MaxLiveSockets
        /\ manager.active_connections = <<>>
        /\ \E p \in DOMAIN tasks : tasks[p].pc \notin {"idle", "return"}

\* One decay with factor 0.995, and up to k co-occurrence boosts before it.
DecayedOnce(weight) == Max((weight * DecayFactor) \div WScale, MinWeight)

RECURSIVE BoostedTimes(_, _)
BoostedTimes(weight, k) ==
    IF k = 0 THEN weight ELSE Min(BoostedTimes(weight, k - 1) + CoOccurBoost, MaxWeight)

\* The weight an edge had before the decay of the step: the stored one, or
\* the one it was created with in the step.
WeightBefore(e) ==
    IF e.id \in EdgeIds(db)
    THEN (CHOOSE old \in Range(db.edges) : old.id = e.id).weight
    ELSE (CHOOSE new \in Range(result'.value.created_edges) : new.id = e.id).weight

StepRank(relation_type) ==
    CASE relation_type = "mentions" -> 1
      [] relation_type = "co_occurs" -> 2
      [] relation_type = "similar_to" -> 3

\* C32: an add_note step creates its mentions edges first, then its co_occurs
\* edges, then its similar_to edges; it leaves every edge of the store, the ones it created
\* included, with its weight decayed exactly once by 0.995 (an edge between
\* two entities of the note after the co-occurrence boosts of the step), and
\* appends to the log events of which exactly one is note_added, and that one
\* is the last.
AddNoteDecaysOnceThenLogs ==
    [][(result'.op = "add_note" /\ db'.node_seq > db.node_seq) =>
          LET written == SubSeq(db'.adaptation_events,
                                Len(db.adaptation_events) + 1,
                                Len(db'.adaptation_events))
              created == result'.value.created_edges
          IN /\ \A i, j \in DOMAIN created :
                   i < j => /\ created[i].id < created[j].id
                            /\ StepRank(created[i].relation_type)
                                   <= StepRank(created[j].relation_type)
             /\ IsPrefix(db.adaptation_events, db'.adaptation_events)
             /\ written # <<>>
             /\ written[Len(written)].event_type = "note_added"
             /\ Cardinality({i \in DOMAIN written :
                                written[i].event_type = "note_added"}) = 1
             /\ \A e \in Range(db'.edges) :
                   \/ e.id \in EdgeIds(db)
                   \/ \E new \in Range(result'.value.created_edges) : new.id = e.id
             /\ \A e \in Range(db'.edges) :
                   IF {e.source_id, e.target_id} \subseteq
                          {n.id : n \in Range(result'.value.entity_nodes)}
                   THEN \E k \in 0..MaxEnts :
                           e.weight = DecayedOnce(BoostedTimes(WeightBefore(e), k))
                   ELSE e.weight = DecayedOnce(WeightBefore(e))]_vars

\* The second note of a store has been added: the mentions edge of the first
\* has been decayed twice, the one just created once.
DecayedOldAndNewEdge ==
    /\ result.op = "add_note"
    /\ \E e \in Range(db.edges) :
          e.relation_type = "mentions" /\ e.weight = DecayedOnce(DecayedOnce(1000))
    /\ \E e \in Range(result.value.created_edges) :
          /\ e.relation_type = "mentions" /\ e.weight = 1000
          /\ \E stored \in Range(db.edges) :
                stored.id = e.id /\ stored.weight = DecayedOnce(1000)
    /\ db.adaptation_events[Len(db.adaptation_events)].event_type = "note_added"

\* C33: no step changes the entity_type or the name of a stored node; an
\* add_note step returns each node it resolved an entity to with the type and
\* name it had, and raises the access_count of a node that was stored before
\* by one per entity resolved to it.
NodeIdentityIsFixed ==
    [][/\ \A n \in Range(db.nodes) : \A after \in Range(db'.nodes) :
             after.id = n.id =>
                 after.entity_type = n.entity_type /\ after.name = n.name
       /\ (result'.op = "add_note" /\ db'.node_seq > db.node_seq) =>
             LET entity_nodes == result'.value.entity_nodes
             IN /\ \A k \in DOMAIN entity_nodes : \A after \in Range(db'.nodes) :
                      after.id = entity_nodes[k].id =>
                          /\ after.entity_type = entity_nodes[k].entity_type
                          /\ after.name = entity_nodes[k].name
                /\ \A n \in Range(db.nodes) : \A after \in Range(db'.nodes) :
                      after.id = n.id =>
                          after.access_count = n.access_count
                              + Occurrences(IdsOf(entity_nodes), n.id)]_vars

\* An add_note has resolved a span, whose label maps to concept, to the note
\* titled "c" that an earlier call stored, which is still a note under that
\* name.
ResolvedToAnotherType ==
    /\ result.op = "add_note"
    /\ \E k \in DOMAIN result.value.entity_nodes :
          /\ result.value.entity_nodes[k].entity_type = "note"
          /\ result.value.entity_nodes[k].id < result.value.note_node.id
          /\ \E n \in Range(db.nodes) :
                /\ n.id = result.value.entity_nodes[k].id
                /\ n.entity_type = "note"
                /\ n.name = <<"c">>
                /\ n.access_count >= 1

\* C35: every mentions edge an add_note step creates leads from the note of
\* the call to a node whose type is not note.
MentionsLeadToEntities ==
    [][(result'.op = "add_note" /\ db'.node_seq > db.node_seq) =>
          \A e \in Range(result'.value.created_edges) :
              e.relation_type = "mentions" =>
                  /\ e.source_id = result'.value.note_node.id
                  /\ \A n \in Range(db'.nodes) :
                        n.id = e.target_id => n.entity_type # "note"]_vars

\* C36: no edge an add_note step creates has its source for target.
IngestionCreatesNoSelfLoop ==
    [][(result'.op = "add_note" /\ db'.node_seq > db.node_seq) =>
          \A e \in Range(result'.value.created_edges) :
              e.source_id # e.target_id]_vars

\* The part of C36 that is about co_occurs edges only.
NoCoOccursSelfLoop ==
    [][(result'.op = "add_note" /\ db'.node_seq > db.node_seq) =>
          \A e \in Range(result'.value.created_edges) :
              e.relation_type = "co_occurs" => e.source_id # e.target_id]_vars

(***************************************************************************)
(* One streaming query at a time over stores with self-loops (a note       *)
(* titled like the entity it mentions, an entity mentioned twice) and with *)
(* edges between two hits of the vector search.                            *)
(***************************************************************************)
TraverseSpans == {Span(<<"c">>, "concept", 2, 100)}

TraverseIngest ==
    /\ NoQueryYet
    /\ AddNoteWithin(Titles, TraverseSpans, MaxLog, MaxQueries)

TraverseStart ==
    /\ AllIdle
    /\ db.metrics.total_queries < MaxQueries
    /\ \E q \in DOMAIN tasks, A \in Answers({}),
          search_results \in UNION {Ranked(collection, n, HitSimilarities) :
                                       n \in 0..MaxTraverseHits} :
        LET r == run_to_suspension(Service, new_frame(search_results, FALSE), A)
        IN /\ SetService(r.S)
           /\ tasks' = [tasks EXCEPT ![q] = r.f]
           /\ started' = [started EXCEPT ![q] = Service]
           /\ UNCHANGED <<result, manager>>

NextTraverse ==
    \/ TraverseIngest
    \/ TraverseStart
    \/ ConcResume
    \/ ReturnQueryStreaming

SpecTraverse == Init /\ [][NextTraverse]_vars

\* The nodes the query expanded that are an endpoint of the edge.
ExpandedEnds(f, e) ==
    {FirstFiveHits(f)[k] : k \in DOMAIN FirstFiveHits(f)}
        \cap {e.source_id, e.target_id}

\* C34: a query that ran alone has raised the traversal_count of each edge by
\* the number of expanded nodes that are an endpoint of it (2, 1 or 0; 1 for
\* a self-loop on an expanded node), returns the edge that many times, and
\* has left an edge without an expanded endpoint as it was.
TraversalCountsExpandedEndpoints ==
    \A q \in DOMAIN tasks :
        tasks[q].pc = "return" =>
            \A i \in DOMAIN db.edges :
                LET before == started[q].db.edges[i]
                    ends == Cardinality(ExpandedEnds(tasks[q], before))
                IN /\ db.edges[i].traversal_count = before.traversal_count + ends
                   /\ Occurrences(IdsOf(tasks[q].edges), before.id) = ends
                   /\ ends = 0 => db.edges[i] = before

\* A query about to return expanded two nodes: an edge between them was
\* traversed twice, and a self-loop on one of them once.
TraversedTwiceAndOnce ==
    \E q \in DOMAIN tasks :
        /\ tasks[q].pc = "return"
        /\ Len(tasks[q].Q.search_results) = 2
        /\ \E e \in Range(db.edges) :
              e.source_id # e.target_id /\ e.traversal_count = 2
        /\ \E e \in Range(db.edges) :
              e.source_id = e.target_id /\ e.traversal_count = 1

\* C37: a merge_entities step that succeeds leaves keep_id in the similarity
\* index, and takes out of the index only ids of merge_ids other than
\* keep_id.
MergeKeepsSurvivorIndexed ==
    [][(/\ result'.op = "merge_entities"
        /\ result'.status = "ok"
        /\ Len(db'.adaptation_events) > Len(db.adaptation_events)) =>
          LET details == LastEvent(db').details
          IN /\ details.kept \in collection => details.kept \in collection'
             /\ (collection \ collection') \subseteq
                    (Range(details.merged) \ {details.kept})]_vars

(***************************************************************************)
(* POST /clear between two suspension points of a streaming query: notes   *)
(* are ingested first, a query starts on a store that holds nodes, and the *)
(* graph is cleared while the query is under way.                          *)
(***************************************************************************)
ClearIngest == NoQueryYet /\ AddNoteWithin({<<>>}, {}, MaxNodes, MaxQueries)

ClearStart ==
    /\ db.nodes # <<>>
    /\ StartQueryStreamingFrom(MaxQueries, {FALSE}, {})

NextClear ==
    \/ ClearIngest
    \/ ClearStart
    \/ ConcResume
    \/ ReturnQueryStreaming
    \/ LiveClear

SpecClear == Init /\ [][NextClear]_vars

\* C38: every row of the registry that is not a seed names the type of a
\* stored node, and while the store holds no node (no query starts on such a
\* store) every in-memory counter of a type is 0.
ClearedStoreHasZeroCounters ==
    /\ \A t \in DOMAIN db.schema_types :
          ~db.schema_types[t].is_seed =>
              \E n \in Range(db.nodes) : n.entity_type = t
    /\ db.nodes = <<>> => \A t \in DOMAIN type_counts : type_counts[t] = 0

====
